---- MODULE Spec2Model ----
(***************************************************************************)
(* Meow-CLI: the round loop between the conversation and the remote model, *)
(* the chat-session store of the multi-chat build (src/index.js 1-1074)    *)
(* and the autopilot controller of the autopilot build (src/index.js       *)
(* 1076-1558).  Two specifications share the variables: SpecChat is the    *)
(* multi-chat build, SpecAuto the autopilot build.                         *)
(***************************************************************************)
EXTENDS Integers, Sequences, FiniteSets, TLC

\* ---------------------------------------------------------------- bounds
\* model calls (callApi invocations) in one behaviour of the multi-chat build
MaxApiCalls == 3
\* model calls in one behaviour of the autopilot build
MaxAutoCalls == 3
\* sessions in the store
MaxChats == 2
\* tool calls in one behaviour of the detailed tool model
MaxToolCalls == 2
\* the sessions the store of the session-command model may hold
MaxStoreChats == 3
\* the /export commands of one behaviour of the session-command model
MaxExports == 1

VARIABLES
  cfg,          \* the configuration object (api_key, profile, autopilot, autopilot_steps)
  historyState, \* multi-chat build: {current, chats}
  currentChat,  \* multi-chat build: main's currentChat
  history,      \* main's history array
  messages,     \* the in-memory conversation
  disk,         \* content of HIST_FILE
  pc,           \* "prompt" | "callApi" | "tools"
  msg,          \* the assistant message handleTools is working on
  i,            \* handleTools: index of the next call of msg.tool_calls
  auto,         \* runAutopilot's locals: running, force, steps, maxSteps
  out,          \* what the round printed last: "none" | "answer" | an error message
  obs,          \* observations of the present turn (not program state)
  env           \* the files the tools work on, and toolChain's locals

vars ==
  <<cfg, historyState, currentChat, history, messages, disk, pc, msg, i, auto, out, obs, env>>

\* ------------------------------------------------------------ JS values
Undefined == "undefined"
Null == <<"null">>

\* x || d for a string x
OrElse(x, d) == IF x = Undefined \/ x = "" THEN d ELSE x

\* c || "" for a message content
ContentOrEmpty(c) == IF c = Null THEN <<>> ELSE c

\* String.prototype.includes on texts held as sequences of characters
Includes(s, t) == \E k \in 0..(Len(s) - Len(t)) : SubSeq(s, k + 1, k + Len(t)) = t

Last(s) == s[Len(s)]

\* the pop left out
PopNone(s) == s

\* two pops for one
PopTwo(s) == IF Len(s) < 2 THEN <<>> ELSE SubSeq(s, 1, Len(s) - 2)

\* Array.prototype.pop (a pop of an empty array leaves it empty)
Pop(s) == IF s = <<>> THEN <<>> ELSE SubSeq(s, 1, Len(s) - 1)

\* the filter left out
FilterNone(s) == s

\* messages.filter(m => m.role !== "user")
FilterNonUser(s) == SelectSeq(s, LAMBDA m : m.role # "user")

RECURSIVE FilterNonSystem(_)
\* messages.filter(m => m.role !== "system")
FilterNonSystem(s) ==
  IF s = <<>> THEN <<>>
  ELSE IF s[1].role # "system" THEN <<s[1]>> \o FilterNonSystem(Tail(s))
  ELSE FilterNonSystem(Tail(s))

\* a JS number that is whole, or a whole number and a half: int + 1/2
Num(int, half) == [int |-> int, half |-> half]

Whole(n) == Num(n, FALSE)

\* x is falsy as a number: the left side of x || d is given up
IsZero(x) == x.int = 0 /\ ~x.half

\* n >= x for a whole n
AtLeast(n, x) == IF x.half THEN n > x.int ELSE n >= x.int

\* ------------------------------------------------------------- messages
Message(role, content, tool_calls, tool_call_id) ==
  [role |-> role, content |-> content, tool_calls |-> tool_calls, tool_call_id |-> tool_call_id]

Profiles == {"default", "creative"}

\* cfg.profiles[p].system
SystemPrompt(p) == <<"system prompt", p>>

SystemMessage(c) == Message("system", SystemPrompt(c.profile), <<>>, Undefined)

UserMessage(text) == Message("user", text, <<>>, Undefined)

\* the tool message without the id of its call
ToolMessageNoId(id, result) == Message("tool", result, <<>>, Undefined)

ToolMessage(id, result) == Message("tool", result, <<>>, id)

NoMessage == Message("none", <<>>, <<>>, Undefined)

\* what the user types as a plain message
UserTexts == {<<"hi">>}

\* the sentinel cfg.autopilot_done_tag
DoneTag == <<"[", "D", "]">>

\* final contents the remote model may return: null, a text with the sentinel
\* inside it, a text with the sentinel cut short
Contents == {Null, <<"o", "k", "[", "D", "]">>, <<"[", "D">>}

\* the final contents taken in the multi-chat build, which never reads them
ChatContents == {<<"o", "k">>}

\* ----------------------------------------------------------- tool calls
\* the (name, arguments text) pairs the remote model asks for in the builds
\* whose tools are taken in one step; "null" decodes to the JSON value null
CallKinds == { [name |-> "list_dir", arguments |-> "{\"path\":\".\"}"] }

CallIds == <<"call_1", "call_2", "call_3", "call_4">>

ToolCall(k, kind) == [id |-> CallIds[k], name |-> kind.name, arguments |-> kind.arguments]

\* the tool_calls arrays the remote model may return: one call, or two
ToolCallLists ==
  UNION { { [k \in 1..len |-> ToolCall(k, f[k])] : f \in [1..len -> CallKinds] } : len \in {1, 2} }

\* choices[0].message of a successful response without tool calls
FinalResponses(contents) == { Message("assistant", c, <<>>, Undefined) : c \in contents }

\* choices[0].message of a successful response with tool calls
ToolCallResponses == { Message("assistant", Null, tc, Undefined) : tc \in ToolCallLists }

\* what executeTool(name, args, cfg) can do for a call: return a result text or
\* throw (args is null and the handler reads a property of it)
ExecuteToolOutcomes(call) ==
  IF call.arguments = "null" /\ call.name \in {"list_dir", "run_shell"}
  THEN { [throws |-> TRUE, result |-> <<"TypeError">>] }
  ELSE IF call.name = "list_dir" THEN { [throws |-> FALSE, result |-> <<"listing">>] }
  ELSE IF call.name = "run_shell"
  THEN { [throws |-> FALSE, result |-> <<"STDOUT">>],
         [throws |-> FALSE, result |-> <<"Cancelled.">>] }
  ELSE { [throws |-> FALSE, result |-> <<"Unknown tool">>] }


\* ------------------------------------------- tools of the multi-chat build
\* the files write_file is asked to write: one whose resolved path has two
\* characters, one with a longer path
ShortPath == "/a"
LongPath == "/tmp/a"
Paths == {ShortPath, LongPath}

OldContent == <<"o", "l", "d">>

\* a file of the file system: whether it exists, and its text
NoFile == [exists |-> FALSE, content |-> <<>>]
FileOf(content) == [exists |-> TRUE, content |-> content]

\* the file systems a round may start with: no file, or every file with OldContent
StartFs == { [p \in Paths |-> NoFile], [p \in Paths |-> FileOf(OldContent)] }

\* a decoded argument mapping: the fields it has, and their values; null is the
\* JSON value null, which has no field and cannot be read
EmptyArgs ==
  [null |-> FALSE, has |-> {}, path |-> "", content |-> <<>>, cmd |-> "",
   url |-> "", query |-> "", steps |-> <<>>]

NullArgs == [EmptyArgs EXCEPT !.null = TRUE]

CmdArgs == [EmptyArgs EXCEPT !.has = {"cmd"}, !.cmd = "echo hi"]

WriteArgs(p) == [EmptyArgs EXCEPT !.has = {"path", "content"}, !.path = p, !.content = OldContent]

\* a write of the empty text
WriteEmptyArgs(p) == [WriteArgs(p) EXCEPT !.content = <<>>]

\* one step of a tool_chain: {tool, args}; a step may lack args
Step(tool, hasArgs, args) == [tool |-> tool, hasArgs |-> hasArgs, args |-> args]

\* the steps arrays the remote model asks tool_chain to run
StepsMixed == <<Step("nope", FALSE, EmptyArgs), Step("run_shell", TRUE, CmdArgs)>>
StepsNoCmd == <<Step("run_shell", FALSE, EmptyArgs), Step("list_dir", TRUE, EmptyArgs)>>

ChainArgs(steps) == [EmptyArgs EXCEPT !.has = {"steps"}, !.steps = steps]

\* JSON.parse(text) for the argument texts the remote model sends: src/index.js 520
JsonParse(text) ==
  CASE text = "{" -> [ok |-> FALSE, value |-> EmptyArgs]
    [] text = "null" -> [ok |-> TRUE, value |-> NullArgs]
    [] text = "{}" -> [ok |-> TRUE, value |-> EmptyArgs]
    [] text = "{\"cmd\":\"echo hi\"}" -> [ok |-> TRUE, value |-> CmdArgs]
    [] text = "{\"path\":\"/a\",\"content\":\"old\"}" -> [ok |-> TRUE, value |-> WriteArgs(ShortPath)]
    [] text = "{\"path\":\"/tmp/a\",\"content\":\"old\"}" -> [ok |-> TRUE, value |-> WriteArgs(LongPath)]
    [] text = "{\"path\":\"/a\",\"content\":\"\"}" -> [ok |-> TRUE, value |-> WriteEmptyArgs(ShortPath)]
    [] text = "{\"url\":\"u\"}" -> [ok |-> TRUE, value |-> [EmptyArgs EXCEPT !.has = {"url"}, !.url = "u"]]
    [] text = "{\"query\":\"q\"}" -> [ok |-> TRUE, value |-> [EmptyArgs EXCEPT !.has = {"query"}, !.query = "q"]]
    [] text = "{\"steps\":[{\"tool\":\"nope\"},{\"tool\":\"run_shell\",\"args\":{\"cmd\":\"echo hi\"}}]}"
         -> [ok |-> TRUE, value |-> ChainArgs(StepsMixed)]
    [] text = "{\"steps\":[{\"tool\":\"run_shell\"},{\"tool\":\"list_dir\",\"args\":{}}]}"
         -> [ok |-> TRUE, value |-> ChainArgs(StepsNoCmd)]

\* let args = {}; try { args = JSON.parse(...) } catch { args = {} }: src/index.js 519-520
DecodeArguments(text) ==
  LET r == JsonParse(text) IN IF r.ok THEN r.value ELSE EmptyArgs

\* step.args || {}: src/index.js 451
StepArgs(step) == IF step.hasArgs /\ ~step.args.null THEN step.args ELSE EmptyArgs

\* the (name, arguments text) pairs the remote model asks for
ToolCallKinds ==
  { [name |-> "list_dir", arguments |-> "{"],
    [name |-> "list_dir", arguments |-> "null"],
    [name |-> "run_shell", arguments |-> "{\"cmd\":\"echo hi\"}"],
    [name |-> "run_shell", arguments |-> "{"],
    [name |-> "write_file", arguments |-> "{\"path\":\"/a\",\"content\":\"old\"}"],
    [name |-> "write_file", arguments |-> "{\"path\":\"/tmp/a\",\"content\":\"old\"}"],
    [name |-> "http_request", arguments |-> "{\"url\":\"u\"}"],
    [name |-> "web_search", arguments |-> "{\"query\":\"q\"}"],
    [name |-> "tool_chain",
     arguments |-> "{\"steps\":[{\"tool\":\"nope\"},{\"tool\":\"run_shell\",\"args\":{\"cmd\":\"echo hi\"}}]}"],
    [name |-> "tool_chain",
     arguments |-> "{\"steps\":[{\"tool\":\"run_shell\"},{\"tool\":\"list_dir\",\"args\":{}}]}"],
    [name |-> "nope", arguments |-> "null"] }

\* the tool_calls arrays of the detailed tool model: one call, or two
ToolBatches ==
  UNION { { [k \in 1..len |-> ToolCall(k, f[k])] : f \in [1..len -> ToolCallKinds] } : len \in {1, 2} }

ToolBatchResponses == { Message("assistant", Null, tc, Undefined) : tc \in ToolBatches }

\* createTwoFilesPatch(file, file, old, content, "Old", "New") of the diff
\* package, by its length.  The patch always opens with four header lines,
\*   Index: <file> / 67 times "=" / --- <file>\tOld / +++ <file>\tNew
\* each closed by a line feed; a hunk follows only when old and content differ
PatchRuleLength == 67

PatchHeaderLength(file) ==
  (7 + Len(file) + 1) + (PatchRuleLength + 1) + (4 + Len(file) + 4 + 1) + (4 + Len(file) + 4 + 1)

\* "@@ -1 +1 @@" and one line for each side, at the least
PatchHunkLength(old, content) ==
  IF old = content THEN 0 ELSE 12 + (1 + Len(old) + 1) + (1 + Len(content) + 1)

PatchLength(file, old, content) == PatchHeaderLength(file) + PatchHunkLength(old, content)

\* diff.trim() && diff.length > 100: src/index.js 360
DiffLimit == 100

\* what executeTool(name, args, cfg) sets out to do, before any confirmation:
\*   return  the handler returns text
\*   throw   the call throws (text is the error)
\*   gate    the handler calls confirm; approved it does act and returns text,
\*           denied it returns denied
\*   act     the handler does act without calling confirm, and returns text
\*   chain   toolChain runs args.steps
\* gates holds, for each confirm the handler calls when the ones before were
\* approved, what it returns when that one is denied
Plan(kind, act, text, denied) ==
  [kind |-> kind, act |-> act, text |-> text, denied |-> denied,
   gates |-> IF kind = "gate" THEN <<denied>> ELSE <<>>]

Returns(text) == Plan("return", "none", text, <<>>)

Throws(text) == Plan("throw", "none", text, <<>>)

TypeError == <<"TypeError">>

\* name.replace(/^proxy_/, ""): src/index.js 459
CleanName(name) ==
  CASE name = "proxy_list_dir" -> "list_dir"
    [] name = "proxy_run_shell" -> "run_shell"
    [] OTHER -> name

\* listDir(args.path): src/index.js 330-340, 461
ListDirPlan(args) ==
  IF "path" \in args.has THEN Returns(<<"listing">>) ELSE Returns(<<"Error">>)

\* readFile(args.path): src/index.js 342-352, 462
ReadFilePlan(args) ==
  IF "path" \in args.has THEN Returns(<<"data">>) ELSE Returns(<<"Read error">>)

\* writeFile with an if in the place of its else if: a new file with a long
\* patch is asked about twice
WriteFileGatesBoth(file, old, content, exists) ==
  (IF PatchLength(file, old, content) > DiffLimit THEN <<<<"Write cancelled.">>>> ELSE <<>>)
    \o (IF ~exists THEN <<<<"Creation cancelled.">>>> ELSE <<>>)

\* the confirms of writeFile, src/index.js 360-366: one for a patch above the
\* limit, else one for a file that does not exist, else none
WriteFileGates(file, old, content, exists) ==
  IF PatchLength(file, old, content) > DiffLimit THEN <<<<"Write cancelled.">>>>
  ELSE IF ~exists THEN <<<<"Creation cancelled.">>>>
  ELSE <<>>

\* writeFile(args.path, args.content, cfg.auto_yes): src/index.js 354-372
WriteFilePlan(args, fs) ==
  IF ~({"path", "content"} \subseteq args.has) THEN Returns(<<"Write error">>)
  ELSE LET file == fs[args.path]
           old == IF file.exists THEN file.content ELSE <<>>
           gates == WriteFileGates(args.path, old, args.content, file.exists)
       IN  IF gates = <<>>
           THEN Plan("act", "write", <<"Written">>, <<>>)
           ELSE [Plan("gate", "write", <<"Written">>, gates[1]) EXCEPT !.gates = gates]

\* runShell that returns nothing when it is cancelled
RunShellPlanSilent(args) ==
  IF "cmd" \in args.has
  THEN Plan("gate", "exec", <<"STDOUT">>, <<>>)
  ELSE Throws(TypeError)

\* runShell(args.cmd, cfg.auto_yes): src/index.js 374-387.  Without a cmd,
\* confirm reads detail.slice of undefined, and exec(undefined) is refused:
\* either way the promise is rejected
RunShellPlan(args) ==
  IF "cmd" \in args.has
  THEN Plan("gate", "exec", <<"STDOUT">>, <<"Cancelled.">>)
  ELSE Throws(TypeError)

\* httpRequest(args, cfg.auto_yes): src/index.js 389-419
HttpRequestPlan(args) ==
  IF "url" \in args.has
  THEN Plan("gate", "fetch", <<"STATUS">>, <<"Cancelled.">>)
  ELSE Returns(<<"Error: url required">>)

\* webSearch(args, cfg.auto_yes): src/index.js 421-443
WebSearchPlan(args) ==
  IF "query" \in args.has
  THEN Plan("gate", "fetch", <<"results">>, <<"Cancelled.">>)
  ELSE Returns(<<"Error: query required">>)

\* toolChain(args.steps, cfg), its first line: src/index.js 445-446
ToolChainPlan(args) ==
  IF "steps" \in args.has /\ args.steps # <<>>
  THEN Plan("chain", "none", <<>>, <<>>)
  ELSE Returns(<<"Error: steps empty">>)

\* the names executeTool has a case for: src/index.js 461-467
Registry ==
  {"list_dir", "read_file", "write_file", "run_shell", "http_request", "web_search", "tool_chain"}

\* executeTool whose default case throws
executeToolStrict(name, args, fs) ==
  LET cleanName == CleanName(name) IN
  IF cleanName \notin {"list_dir", "read_file", "write_file", "run_shell",
                       "http_request", "web_search", "tool_chain"}
  THEN Throws(<<"Unknown tool">>)
  ELSE IF args.null THEN Throws(TypeError)
  ELSE CASE cleanName = "list_dir" -> ListDirPlan(args)
         [] cleanName = "read_file" -> ReadFilePlan(args)
         [] cleanName = "write_file" -> WriteFilePlan(args, fs)
         [] cleanName = "run_shell" -> RunShellPlan(args)
         [] cleanName = "http_request" -> HttpRequestPlan(args)
         [] cleanName = "web_search" -> WebSearchPlan(args)
         [] cleanName = "tool_chain" -> ToolChainPlan(args)

\* executeTool(name, args, cfg): src/index.js 458-470.  Every case but the
\* default reads a property of args, or destructures it, which throws when args
\* is null
executeTool(name, args, fs) ==
  LET cleanName == CleanName(name) IN
  IF cleanName \notin {"list_dir", "read_file", "write_file", "run_shell",
                       "http_request", "web_search", "tool_chain"}
  THEN Returns(<<"Unknown tool">>)
  ELSE IF args.null THEN Throws(TypeError)
  ELSE CASE cleanName = "list_dir" -> ListDirPlan(args)
         [] cleanName = "read_file" -> ReadFilePlan(args)
         [] cleanName = "write_file" -> WriteFilePlan(args, fs)
         [] cleanName = "run_shell" -> RunShellPlan(args)
         [] cleanName = "http_request" -> HttpRequestPlan(args)
         [] cleanName = "web_search" -> WebSearchPlan(args)
         [] cleanName = "tool_chain" -> ToolChainPlan(args)

\* the data a pending confirm may be given: a chunk of stdin, as characters
ConfirmInputs ==
  { <<"y", "\n">>, <<" ", "Y", "\n">>, <<"y", "e", "s", "\n">>, <<"n", "\n">>, <<"\n">> }

\* the characters String.prototype.trim removes, of those in ConfirmInputs
WhiteSpace == {" ", "\n"}

RECURSIVE TrimStart(_)
TrimStart(s) == IF s # <<>> /\ Head(s) \in WhiteSpace THEN TrimStart(Tail(s)) ELSE s

RECURSIVE TrimEnd(_)
TrimEnd(s) ==
  IF s # <<>> /\ Last(s) \in WhiteSpace THEN TrimEnd(SubSeq(s, 1, Len(s) - 1)) ELSE s

\* d.toString().trim()
Trim(s) == TrimEnd(TrimStart(s))

\* toLowerCase(), for the letters of ConfirmInputs
ToLowerCase(s) ==
  [k \in 1..Len(s) |-> CASE s[k] = "Y" -> "y" [] s[k] = "N" -> "n" [] OTHER -> s[k]]

\* onData that compares the data as it came
ApprovesUntrimmed(d) == d = <<"y">>

\* onData's decision, answer === "y": src/index.js 308-315
Approves(d) == ToLowerCase(Trim(d)) = <<"y">>

\* what resolves a pending confirm: data on stdin (src/index.js 305-316) or the
\* timer of 10 s (src/index.js 318-322)
ConfirmEvents ==
  { [by |-> "input", data |-> d] : d \in ConfirmInputs } \cup { [by |-> "timer", data |-> <<>>] }

\* confirm's decision on an event: the timer approves
Decision(ev) == ev.by = "timer" \/ Approves(ev.data)

\* a confirm that always asks
ConfirmAtOnceNever(c) == FALSE

\* if (auto_yes) return true: src/index.js 296
ConfirmAtOnce(c) == c.auto_yes

\* confirm's promises that are not resolved yet, the data listeners it has on
\* stdin and its running timers
NoConfirm == [pending |-> 0, listeners |-> 0, timers |-> 0]

\* the promise is made: the prompt is written, the timer set and the listener
\* put on stdin.  src/index.js 297-324
ConfirmOpen(c) ==
  [pending |-> c.pending + 1, listeners |-> c.listeners + 1, timers |-> c.timers + 1]

\* onData without its clearTimeout
ConfirmOnDataKeepsTimer(c) ==
  [pending |-> c.pending - 1, listeners |-> c.listeners - 1, timers |-> c.timers]

\* onData: clearTimeout, stdin.off, resolve.  src/index.js 305-316
ConfirmOnData(c) ==
  [pending |-> c.pending - 1, listeners |-> c.listeners - 1, timers |-> c.timers - 1]

\* the timer's callback without its stdin.off
ConfirmOnTimerKeepsListener(c) ==
  [pending |-> c.pending - 1, listeners |-> c.listeners, timers |-> c.timers - 1]

\* the timer's callback: stdin.off, resolve(true); the timer is spent.
\* src/index.js 318-322
ConfirmOnTimer(c) ==
  [pending |-> c.pending - 1, listeners |-> c.listeners - 1, timers |-> c.timers - 1]

\* confirm after the event that resolves it
ConfirmResolve(c, ev) == IF ev.by = "timer" THEN ConfirmOnTimer(c) ELSE ConfirmOnData(c)

RECURSIVE Stringify(_)
\* JSON.stringify(outputs): one {step, tool, result} after the other
Stringify(outputs) ==
  IF outputs = <<>> THEN <<>>
  ELSE <<"{", ToString(outputs[1].step), outputs[1].tool>> \o outputs[1].result \o <<"}">>
       \o Stringify(Tail(outputs))

\* ---------------------------------------------------------------- callApi
\* the ways one callApi(messages, cfg) can end
ErrNoKey == <<"API Key not set">>
ErrHttp == <<"Network error", "API status">>
ErrTransport == <<"Network error", "fetch failed">>

\* does callApi send a request?  (the key check comes first)
SendsRequest(c) == c.api_key # ""

\* the errors a sent request can end in
RequestErrors == {ErrHttp, ErrTransport}

\* ------------------------------------------------------- the chat store
\* historyState.chats: an object, held as the sequence of its entries in
\* insertion order (the order Object.keys gives for non-numeric keys)
HasChat(chats, name) == \E k \in 1..Len(chats) : chats[k].name = name

Keys(chats) == [k \in 1..Len(chats) |-> chats[k].name]

KeySet(chats) == { chats[k].name : k \in 1..Len(chats) }

\* the names every object inherits a property under (Object.prototype), of
\* which the model takes one
InheritedNames == {"toString"}

\* a lookup that sees the inherited names only
TruthyInheritedOnly(chats, name) == name \in InheritedNames

\* historyState.chats[name] read as a condition: true for a key of the object
\* (an array is truthy even when empty) and for an inherited property
Truthy(chats, name) == HasChat(chats, name) \/ name \in InheritedNames

\* chats[name], for a name that is a key
GetChat(chats, name) == chats[CHOOSE k \in 1..Len(chats) : chats[k].name = name].msgs

\* chats[name] || []
GetChatOrEmpty(chats, name) == IF HasChat(chats, name) THEN GetChat(chats, name) ELSE <<>>

\* chats[name] = msgs: an existing key keeps its place, a new key goes last
SetChat(chats, name, msgs) ==
  IF HasChat(chats, name)
  THEN [k \in 1..Len(chats) |-> IF chats[k].name = name THEN [name |-> name, msgs |-> msgs] ELSE chats[k]]
  ELSE Append(chats, [name |-> name, msgs |-> msgs])

\* delete chats[name]
DeleteChat(chats, name) == SelectSeq(chats, LAMBDA e : e.name # name)

ChatNames == <<"chat-1", "chat-2", "chat-3", "chat-4", "chat-5", "chat-6">>

\* a makeChatName that numbers the new session by the count of sessions
makeChatNameByCount(state) == ChatNames[Len(state.chats)]

makeChatName(state) ==
  ChatNames[CHOOSE n \in 1..Len(ChatNames) :
              /\ ~HasChat(state.chats, ChatNames[n])
              /\ \A m \in 1..(n - 1) : HasChat(state.chats, ChatNames[m])]

\* ------------------------------------------------------------- HIST_FILE
\* a JSON file: missing, a top-level array, or a top-level object with or
\* without its current and chats fields
File(kind, hasCurrent, current, hasChats, chats, items) ==
  [kind |-> kind, hasCurrent |-> hasCurrent, current |-> current,
   hasChats |-> hasChats, chats |-> chats, items |-> items]

FileMissing == File("missing", FALSE, Undefined, FALSE, <<>>, <<>>)

FileArray(items) == File("array", FALSE, Undefined, FALSE, <<>>, items)

FileObject(hasCurrent, current, hasChats, chats) ==
  File("object", hasCurrent, IF hasCurrent THEN current ELSE Undefined,
       hasChats, IF hasChats THEN chats ELSE <<>>, <<>>)

\* JSON.stringify(state) written to a file: a field that is undefined is left out
saveHistoryState(state) ==
  FileObject(state.current # Undefined, state.current, TRUE, state.chats)

\* saveHistory(msgs) of the single-history builds
saveHistory(msgs) == FileArray(msgs)

\* JSON.parse of an object file: a field that is absent reads as undefined
ParsedObject(file) ==
  [current |-> IF file.hasCurrent THEN file.current ELSE Undefined,
   chats |-> file.chats]

Fallback == [current |-> "default", chats |-> <<[name |-> "default", msgs |-> <<>>]>>]

loadHistoryState(file) ==
  IF file.kind = "array"
  THEN [current |-> "default", chats |-> <<[name |-> "default", msgs |-> file.items]>>]
  ELSE IF file.kind = "object"
  THEN LET chats == IF file.hasChats THEN file.chats ELSE <<>>
           current == OrElse(ParsedObject(file).current, "default")
       IN  [current |-> current,
            chats |-> IF Truthy(chats, current) THEN chats ELSE SetChat(chats, current, <<>>)]
  ELSE Fallback

\* loadHistory() of the single-history builds
loadHistory(file) == IF file.kind = "array" THEN file.items ELSE <<>>

\* a stored exchange, as an earlier run of the program leaves it
OldExchange == <<UserMessage(<<"old">>), Message("assistant", <<"o", "k">>, <<>>, Undefined)>>

\* the files the program may find at HIST_FILE when it starts
StartFilesChat ==
  { FileMissing,
    FileArray(OldExchange),
    FileObject(FALSE, Undefined, TRUE, <<[name |-> "a", msgs |-> <<>>]>>) }

\* the files the user may name in /import
ImportFiles ==
  { FileMissing,
    FileArray(OldExchange),
    FileObject(TRUE, "a", FALSE, <<>>),
    FileObject(TRUE, "a", TRUE, <<[name |-> "default", msgs |-> <<>>], [name |-> "a", msgs |-> OldExchange]>>),
    FileObject(TRUE, "ghost", TRUE, <<[name |-> "a", msgs |-> <<>>]>>),
    FileObject(FALSE, Undefined, TRUE, <<>>) }

\* --------------------------------------------------------- observations
\* obs records, for the turn in progress: the conversation and the file as they
\* were when the present round (base) and the turn (diskBase) began; whether a
\* request was sent; the tool batches handled in the present round; the rounds
\* begun; whether a round completed, whether one failed, whether a request
\* failed (neterr); the last reply; and the callApi invocations of the whole
\* behaviour, which the bounds cap
Idle(apiCalls) ==
  [base |-> <<>>, diskBase |-> FileMissing, sent |-> FALSE, batches |-> 0,
   rounds |-> 0, completed |-> FALSE, failed |-> FALSE, neterr |-> FALSE,
   reply |-> <<>>, apiCalls |-> apiCalls]

\* toolChain's locals: the steps, the index of the next one, the outputs so
\* far; and how the last chain ended (no, returned, threw)
NoChain == [active |-> FALSE, steps |-> <<>>, k |-> 0, outputs |-> <<>>, ended |-> "no"]

\* what is known of one run of executeTool: the tool, whether it is a call of
\* the batch (top) or a step of a chain, the id of the call, whether the
\* argument text failed to decode, whether it asks to write what the file
\* holds already, whether it asks to write a file that does not exist (fresh),
\* the confirms it has called (asks), how the confirmation went
\* (none, asked, approved, denied),
\* what resolved its confirm (none, input, timer) and the data that did,
\* whether the tool acted, and how the run ended (running, returned, threw)
Invocation(name, top, id, malformed, identical) ==
  [name |-> name, top |-> top, id |-> id, malformed |-> malformed, identical |-> identical,
   fresh |-> FALSE, gate |-> "none", asks |-> 0, by |-> "none", input |-> <<>>,
   acted |-> FALSE, outcome |-> "running", result |-> <<>>]

NoInvocation == Invocation("", TRUE, "", FALSE, FALSE)

\* a command as the user typed it: its name, the session name given, the file
\* named
Cmd(name, arg, file) == [name |-> name, arg |-> arg, file |-> file]

\* what is known of the session commands: the last one; the file /export
\* wrote, the store as it was when the file was written, the exports so far,
\* and whether an /import of that file has replaced a store that differed
NoStore ==
  [cmd |-> Cmd("none", "", FileMissing), exported |-> FileMissing, snapshot |-> Fallback,
   exports |-> 0, restored |-> FALSE]

\* what is known of httpRequest's fetch: the call it serves, the timers it has
\* pending, and whether its controller has aborted
NoHttp == [id |-> "", timers |-> 0, aborted |-> FALSE]

\* no file, no chain in progress, no tool run yet, no session command yet, no
\* fetch begun
NoEnv ==
  [fs |-> <<>>, chain |-> NoChain, calls |-> 0, last |-> NoInvocation, confirm |-> NoConfirm,
   store |-> NoStore, http |-> NoHttp]

\* runAutopilot's locals (force, steps, maxSteps) and how its loop was left
NoAuto ==
  [running |-> FALSE, force |-> FALSE, steps |-> 0, maxSteps |-> Whole(0), halt |-> "none"]

OutNone == <<"none">>
OutAnswer == <<"answer">>
OutOk == <<"ok">>
\* log.err(text): the model keeps that an error was logged, not its wording
OutErr(text) == <<"err">>

\* ------------------------------------------- multi-chat build: main, start
\* src/index.js 771-780
InitChat ==
  /\ cfg = [api_key |-> "", profile |-> "default", autopilot |-> FALSE,
            autopilot_steps |-> Whole(0)]
  /\ disk \in StartFilesChat
  /\ historyState = loadHistoryState(disk)
  /\ currentChat = historyState.current
  /\ history = GetChat(historyState.chats, currentChat)
  /\ messages = <<SystemMessage(cfg)>> \o history
  /\ pc = "prompt"
  /\ msg = NoMessage
  /\ i = 0
  /\ auto = NoAuto
  /\ out = OutNone
  /\ obs = Idle(0)
  /\ env = NoEnv

\* a command logs its result and the loop goes back to the prompt
CommandResult(result) ==
  /\ pc' = "prompt"
  /\ out' = result
  /\ obs' = Idle(obs.apiCalls)
  /\ UNCHANGED <<msg, i, auto>>

\* a command leaves the round machinery alone
CommandFrame(result) ==
  /\ CommandResult(result)
  /\ UNCHANGED env

\* an error no handler catches leaves main: "Fatal Error" and process.exit(1).
\* src/index.js 1071-1074
OutFatal == <<"fatal">>

\* what a variable holds that was given something that is not an array
NotAnArray == <<Message("function", <<>>, <<>>, Undefined)>>

\* /clear  (src/index.js 804-811)
Clear ==
  /\ pc = "prompt"
  /\ messages' = <<SystemMessage(cfg)>>
  /\ history' = <<>>
  /\ historyState' = [historyState EXCEPT !.chats = SetChat(@, currentChat, <<>>)]
  /\ disk' = saveHistoryState(historyState')
  /\ CommandFrame(OutOk)
  /\ UNCHANGED <<cfg, currentChat>>

\* the names a user may type after /chat new: none, fresh ones, and the existing ones
NewNameInputs == {"", "a"} \cup KeySet(historyState.chats)

\* /chat new [name], for the name typed and at most max sessions
\* (src/index.js 821-833)
ChatNewOf(name, max) ==
  LET newName == IF name = "" THEN makeChatName(historyState) ELSE name IN
  IF Truthy(historyState.chats, newName)
  THEN /\ CommandResult(OutErr("already exists"))
       /\ UNCHANGED <<cfg, historyState, currentChat, history, messages, disk>>
  ELSE /\ Len(historyState.chats) < max
       /\ historyState' = [current |-> newName, chats |-> SetChat(historyState.chats, newName, <<>>)]
       /\ currentChat' = newName
       /\ history' = <<>>
       /\ messages' = <<SystemMessage(cfg)>>
       /\ disk' = saveHistoryState(historyState')
       /\ CommandResult(OutOk)
       /\ UNCHANGED cfg

ChatNew ==
  /\ pc = "prompt"
  /\ \E name \in NewNameInputs : ChatNewOf(name, MaxChats)
  /\ UNCHANGED env

\* the names a user may type after /chat use and /chat delete: none, the
\* existing ones, and one that names no session
OldNameInputs == {"", "ghost"} \cup KeySet(historyState.chats)

\* /chat use <name>, for the name typed (src/index.js 834-846).  Under an
\* inherited name chats[name] is a function: it passes the test, is assigned to
\* history, and the spread ...history throws out of main
ChatUseOf(name) ==
  IF name = ""
  THEN /\ CommandResult(OutErr("Specify chat name"))
       /\ UNCHANGED <<cfg, historyState, currentChat, history, messages, disk>>
  ELSE IF ~Truthy(historyState.chats, name)
  THEN /\ CommandResult(OutErr("not found"))
       /\ UNCHANGED <<cfg, historyState, currentChat, history, messages, disk>>
  ELSE IF ~HasChat(historyState.chats, name)
  THEN /\ historyState' = [historyState EXCEPT !.current = name]
       /\ currentChat' = name
       /\ history' = NotAnArray
       /\ pc' = "exit"
       /\ out' = OutFatal
       /\ UNCHANGED <<cfg, messages, disk, msg, i, auto, obs>>
  ELSE /\ historyState' = [historyState EXCEPT !.current = name]
       /\ currentChat' = name
       /\ history' = GetChatOrEmpty(historyState.chats, name)
       /\ messages' = <<SystemMessage(cfg)>> \o history'
       /\ disk' = saveHistoryState(historyState')
       /\ CommandResult(OutOk)
       /\ UNCHANGED cfg

ChatUse ==
  /\ pc = "prompt"
  /\ \E name \in OldNameInputs : ChatUseOf(name)
  /\ UNCHANGED env

\* /chat delete <name>, for the name typed (src/index.js 847-865)
ChatDeleteOf(name) ==
  IF name = ""
  THEN /\ CommandResult(OutErr("Specify chat name"))
       /\ UNCHANGED <<cfg, historyState, currentChat, history, messages, disk>>
  ELSE IF ~Truthy(historyState.chats, name)
  THEN /\ CommandResult(OutErr("not found"))
       /\ UNCHANGED <<cfg, historyState, currentChat, history, messages, disk>>
  ELSE LET left == DeleteChat(historyState.chats, name) IN
       /\ IF historyState.current = name
          THEN LET names == Keys(left)
                   next == IF names = <<>> THEN "default" ELSE names[1]
                   chats == IF HasChat(left, next) THEN left ELSE SetChat(left, next, <<>>)
               IN  /\ historyState' = [current |-> next, chats |-> chats]
                   /\ currentChat' = next
                   /\ history' = GetChat(chats, next)
                   /\ messages' = <<SystemMessage(cfg)>> \o history'
          ELSE /\ historyState' = [historyState EXCEPT !.chats = left]
               /\ UNCHANGED <<currentChat, history, messages>>
       /\ disk' = saveHistoryState(historyState')
       /\ CommandResult(OutOk)
       /\ UNCHANGED cfg

ChatDelete ==
  /\ pc = "prompt"
  /\ \E name \in OldNameInputs : ChatDeleteOf(name)
  /\ UNCHANGED env

\* the keys a user may type after /key
KeyInputs == {"sk"}

\* /key <key>  (src/index.js 873-878)
Key ==
  /\ pc = "prompt"
  /\ \E k \in KeyInputs : cfg' = [cfg EXCEPT !.api_key = k]
  /\ CommandFrame(OutOk)
  /\ UNCHANGED <<historyState, currentChat, history, messages, disk>>

\* the names a user may type after /profile: none, a profile, and one that
\* names no profile
ProfileInputs == {"", "creative", "ghost"}

\* /profile [name]  (src/index.js 902-920)
Profile ==
  /\ pc = "prompt"
  /\ \E p \in ProfileInputs :
       IF p = ""
       THEN CommandFrame(OutOk) /\ UNCHANGED <<cfg, messages>>
       ELSE IF p \in Profiles
       THEN /\ cfg' = [cfg EXCEPT !.profile = p]
            /\ messages' = [messages EXCEPT ![1] = SystemMessage(cfg')]
            /\ CommandFrame(OutOk)
       ELSE CommandFrame(OutErr("not found")) /\ UNCHANGED <<cfg, messages>>
  /\ UNCHANGED <<historyState, currentChat, history, disk>>

\* a test that takes every blob
HasChatsFieldAny(file) == TRUE

\* if (data.chats), for the parsed file: src/index.js 978
HasChatsField(file) == file.kind = "object" /\ file.hasChats

\* /import <file>, for the file named and at most max sessions
\* (src/index.js 973-990)
ImportOf(file, max) ==
  IF file.kind = "missing"
  THEN /\ CommandResult(OutErr("Import failed"))
       /\ UNCHANGED <<cfg, historyState, currentChat, history, messages, disk>>
  ELSE IF ~HasChatsField(file)
  THEN /\ CommandResult(OutErr("Invalid history format"))
       /\ UNCHANGED <<cfg, historyState, currentChat, history, messages, disk>>
  ELSE /\ Len(file.chats) <= max
       /\ historyState' = ParsedObject(file)
       /\ currentChat' = OrElse(historyState'.current, "default")
       /\ history' = GetChatOrEmpty(historyState'.chats, currentChat')
       /\ messages' = <<SystemMessage(cfg)>> \o history'
       /\ disk' = saveHistoryState(historyState')
       /\ CommandResult(OutOk)
       /\ UNCHANGED cfg

Import ==
  /\ pc = "prompt"
  /\ \E file \in ImportFiles : ImportOf(file, MaxChats)
  /\ UNCHANGED env

\* ------------------------------------------------------------ the round
LogErr(e) == <<"err">> \o e

\* the user's input is taken: the observations of the turn start afresh
TurnStart ==
  obs' = [Idle(obs.apiCalls) EXCEPT !.base = messages, !.diskBase = disk, !.rounds = 1]

\* one callApi has been invoked; sent tells whether it sent a request
Called(o, sent) ==
  [o EXCEPT !.apiCalls = @ + 1, !.sent = @ \/ sent]

\* a round has failed with error e
Failed(o, e) == [o EXCEPT !.failed = TRUE, !.neterr = @ \/ e \in RequestErrors]

\* handleTools(msg, messages, cfg), up to its first call: src/index.js 506-516
HandleToolsBegin(m) ==
  /\ messages' = Append(messages, m)
  /\ msg' = m
  /\ i' = 1
  /\ pc' = "tools"

\* handleTools with the id of the first call for every tool message
HandleToolsPushFirstId(result) ==
  /\ messages' = Append(messages, ToolMessage(msg.tool_calls[1].id, result))
  /\ IF i < Len(msg.tool_calls)
     THEN /\ i' = i + 1
          /\ pc' = "tools"
          /\ UNCHANGED <<msg, obs>>
     ELSE /\ i' = 0
          /\ msg' = NoMessage
          /\ pc' = "callApi"
          /\ obs' = [obs EXCEPT !.batches = @ + 1]

\* handleTools under a round loop that gives up after its first batch
HandleToolsPushCapped(result) ==
  /\ messages' = Append(messages, ToolMessage(msg.tool_calls[i].id, result))
  /\ IF i < Len(msg.tool_calls)
     THEN /\ i' = i + 1
          /\ pc' = "tools"
          /\ UNCHANGED <<msg, obs>>
     ELSE /\ i' = 0
          /\ msg' = NoMessage
          /\ pc' = IF obs.batches >= 1 THEN "prompt" ELSE "callApi"
          /\ obs' = [obs EXCEPT !.batches = @ + 1]

\* handleTools, one turn of its loop for a call that returned: src/index.js 516-529
HandleToolsPush(result) ==
  /\ messages' = Append(messages, ToolMessage(msg.tool_calls[i].id, result))
  /\ IF i < Len(msg.tool_calls)
     THEN /\ i' = i + 1
          /\ pc' = "tools"
          /\ UNCHANGED <<msg, obs>>
     ELSE /\ i' = 0
          /\ msg' = NoMessage
          /\ pc' = "callApi"
          /\ obs' = [obs EXCEPT !.batches = @ + 1]

\* a plain message at the prompt: src/index.js 1005
ChatUserInput ==
  /\ pc = "prompt"
  /\ obs.apiCalls < MaxApiCalls
  /\ \E text \in UserTexts : messages' = Append(messages, UserMessage(text))
  /\ pc' = "callApi"
  /\ out' = OutNone
  /\ TurnStart
  /\ UNCHANGED <<cfg, historyState, currentChat, history, disk, msg, i, auto, env>>

\* the catch of the round: src/index.js 1058-1062
ChatCatch(e, o) ==
  /\ out' = LogErr(e)
  /\ messages' = Pop(messages)
  /\ pc' = "prompt"
  /\ msg' = NoMessage
  /\ i' = 0
  /\ obs' = Failed(o, e)
  /\ UNCHANGED <<cfg, historyState, currentChat, history, disk, auto>>

\* callApi throws before any request: src/index.js 475
ChatCallApiNoKey ==
  /\ pc = "callApi"
  /\ ~SendsRequest(cfg)
  /\ ChatCatch(ErrNoKey, Called(obs, FALSE))
  /\ UNCHANGED env

\* the request fails, by its status or in transport: src/index.js 488-501
ChatCallApiError ==
  /\ pc = "callApi"
  /\ SendsRequest(cfg)
  /\ \E e \in RequestErrors : ChatCatch(e, Called(obs, TRUE))
  /\ UNCHANGED env

\* the response carries tool calls: src/index.js 1018-1027, 506-516
ChatToolCalls ==
  /\ pc = "callApi"
  /\ SendsRequest(cfg)
  /\ obs.apiCalls + 1 < MaxApiCalls
  /\ \E m \in ToolCallResponses : HandleToolsBegin(m)
  /\ obs' = Called(obs, TRUE)
  /\ UNCHANGED <<cfg, historyState, currentChat, history, disk, auto, out, env>>

\* one call of the batch: src/index.js 516-525
ChatToolStep ==
  /\ pc = "tools"
  /\ \E o \in ExecuteToolOutcomes(msg.tool_calls[i]) :
       IF o.throws
       THEN ChatCatch(o.result, obs) /\ UNCHANGED env
       ELSE /\ HandleToolsPush(o.result)
            /\ UNCHANGED <<cfg, historyState, currentChat, history, disk, auto, out, env>>

\* the response carries no tool call: src/index.js 1029-1056
ChatFinal ==
  /\ pc = "callApi"
  /\ SendsRequest(cfg)
  /\ \E m \in FinalResponses(ChatContents) : messages' = Append(messages, m)
  /\ history' = FilterNonSystem(messages')
  /\ historyState' = [current |-> currentChat,
                      chats |-> SetChat(historyState.chats, currentChat, history')]
  /\ disk' = saveHistoryState(historyState')
  /\ pc' = "prompt"
  /\ out' = OutAnswer
  /\ obs' = [Called(obs, TRUE) EXCEPT !.completed = TRUE]
  /\ UNCHANGED <<cfg, currentChat, msg, i, auto, env>>

NextChat ==
  \/ Clear \/ ChatNew \/ ChatUse \/ ChatDelete \/ Key \/ Profile \/ Import
  \/ ChatUserInput \/ ChatCallApiNoKey \/ ChatCallApiError \/ ChatToolCalls
  \/ ChatToolStep \/ ChatFinal

SpecChat == InitChat /\ [][NextChat]_vars

\* ------------------------------- multi-chat build: the session commands
\* src/index.js 771-780, with a key set
InitStore ==
  /\ cfg = [api_key |-> "sk", profile |-> "default", autopilot |-> FALSE,
            autopilot_steps |-> Whole(0)]
  /\ disk \in StartFilesChat
  /\ historyState = loadHistoryState(disk)
  /\ currentChat = historyState.current
  /\ history = GetChat(historyState.chats, currentChat)
  /\ messages = <<SystemMessage(cfg)>> \o history
  /\ pc = "prompt"
  /\ msg = NoMessage
  /\ i = 0
  /\ auto = NoAuto
  /\ out = OutNone
  /\ obs = Idle(0)
  /\ env = NoEnv

\* the command in hand is noted
Did(c) == env' = [env EXCEPT !.store.cmd = c]

\* the names a user may type after /chat new: none, a fresh one, an inherited
\* one, and the existing ones
StoreNewNames == {"", "a"} \cup InheritedNames \cup KeySet(historyState.chats)

\* the names a user may type after /chat use and /chat delete: none, the
\* existing ones, one that names no session, and an inherited one
StoreOldNames == {"", "ghost"} \cup InheritedNames \cup KeySet(historyState.chats)

StoreChatNew ==
  /\ pc = "prompt"
  /\ \E name \in StoreNewNames :
       ChatNewOf(name, MaxStoreChats) /\ Did(Cmd("new", name, FileMissing))

StoreChatUse ==
  /\ pc = "prompt"
  /\ \E name \in StoreOldNames :
       ChatUseOf(name) /\ Did(Cmd("use", name, FileMissing))

StoreChatDelete ==
  /\ pc = "prompt"
  /\ \E name \in StoreOldNames :
       ChatDeleteOf(name) /\ Did(Cmd("delete", name, FileMissing))

StoreImport ==
  /\ pc = "prompt"
  /\ \E file \in ImportFiles :
       ImportOf(file, MaxStoreChats) /\ Did(Cmd("import", "", file))

NextStore ==
  \/ StoreChatNew \/ StoreChatUse \/ StoreChatDelete \/ StoreImport

SpecStore == InitStore /\ [][NextStore]_vars

\* ------------------------------- multi-chat build: /export and /import
\* an export that leaves the current pointer out
ExportBlobChatsOnly(state) == FileObject(FALSE, Undefined, TRUE, state.chats)

\* JSON.stringify(historyState, null, 2): a field that is undefined is left
\* out.  src/index.js 966
ExportBlob(state) == FileObject(state.current # Undefined, state.current, TRUE, state.chats)

\* /export <file>  (src/index.js 962-970): the file is written, or
\* writeFileSync throws and the error is logged
Export ==
  /\ pc = "prompt"
  /\ env.store.exports < MaxExports
  /\ \/ /\ env' = [env EXCEPT !.store.exported = ExportBlob(historyState),
                                !.store.snapshot = historyState,
                                !.store.exports = @ + 1,
                                !.store.restored = FALSE]
        /\ CommandResult(OutOk)
     \/ /\ CommandResult(OutErr("Export failed"))
        /\ UNCHANGED env
  /\ UNCHANGED <<cfg, historyState, currentChat, history, messages, disk>>

\* /import <file>, of the file /export wrote  (src/index.js 973-990)
ImportExported ==
  /\ pc = "prompt"
  /\ env.store.exported.kind # "missing"
  /\ ImportOf(env.store.exported, MaxChats)
  /\ env' = [env EXCEPT !.store.restored = (historyState # env.store.snapshot)]

NextExport ==
  \/ ChatNew \/ ChatUse \/ ChatDelete \/ Import \/ Export \/ ImportExported

SpecExport == InitStore /\ [][NextExport]_vars

\* ------------------------------- multi-chat build: the start of main
\* the current fields a history file may carry: none, the empty string, the
\* name of a session, a name of no session, and an inherited name
LoadCurrents ==
  { [has |-> FALSE, name |-> Undefined], [has |-> TRUE, name |-> ""],
    [has |-> TRUE, name |-> "a"], [has |-> TRUE, name |-> "ghost"],
    [has |-> TRUE, name |-> "toString"] }

\* the chats fields a history file may carry: none, and objects of no, one and
\* two sessions
LoadChats ==
  { [has |-> FALSE, chats |-> <<>>],
    [has |-> TRUE, chats |-> <<>>],
    [has |-> TRUE, chats |-> <<[name |-> "a", msgs |-> <<>>]>>],
    [has |-> TRUE, chats |-> <<[name |-> "default", msgs |-> OldExchange], [name |-> "a", msgs |-> <<>>]>>],
    [has |-> TRUE, chats |-> <<[name |-> "a", msgs |-> OldExchange], [name |-> "default", msgs |-> OldExchange]>>] }

\* the files the program may find at HIST_FILE: none, a bare array of messages,
\* and objects
LoadFiles ==
  { FileMissing, FileArray(<<>>), FileArray(OldExchange) }
    \cup { FileObject(c.has, c.name, d.has, d.chats) : c \in LoadCurrents, d \in LoadChats }

\* main has not run yet: src/index.js 771
InitLoad ==
  /\ cfg = [api_key |-> "sk", profile |-> "default", autopilot |-> FALSE,
            autopilot_steps |-> Whole(0)]
  /\ disk \in LoadFiles
  /\ historyState = Fallback
  /\ currentChat = Undefined
  /\ history = <<>>
  /\ messages = <<>>
  /\ pc = "start"
  /\ msg = NoMessage
  /\ i = 0
  /\ auto = NoAuto
  /\ out = OutNone
  /\ obs = Idle(0)
  /\ env = NoEnv

\* let historyState = loadHistoryState()  (src/index.js 773)
LoadState ==
  /\ pc = "start"
  /\ historyState' = loadHistoryState(disk)
  /\ pc' = "loaded"
  /\ UNCHANGED <<cfg, currentChat, history, messages, disk, msg, i, auto, out, obs, env>>

\* main up to its prompt (src/index.js 775-780): the current entry is tested
\* once more, and the spread of a history that is no array throws out of main
MainStart ==
  /\ pc = "loaded"
  /\ LET current == historyState.current
         chats == IF Truthy(historyState.chats, current)
                  THEN historyState.chats
                  ELSE SetChat(historyState.chats, current, <<>>)
     IN  /\ historyState' = [historyState EXCEPT !.chats = chats]
         /\ currentChat' = current
         /\ IF HasChat(chats, current)
            THEN /\ history' = GetChat(chats, current)
                 /\ messages' = <<SystemMessage(cfg)>> \o history'
                 /\ pc' = "prompt"
                 /\ out' = OutNone
            ELSE /\ history' = NotAnArray
                 /\ pc' = "exit"
                 /\ out' = OutFatal
                 /\ UNCHANGED messages
  /\ UNCHANGED <<cfg, disk, msg, i, auto, obs, env>>

\* a /clear that empties every session
ClearAllOf(chats, name) ==
  [k \in 1..Len(SetChat(chats, name, <<>>)) |->
     [name |-> SetChat(chats, name, <<>>)[k].name, msgs |-> <<>>]]

\* historyState.chats[currentChat] = []  (src/index.js 807)
ClearOf(chats, name) == SetChat(chats, name, <<>>)

\* /clear, noted  (src/index.js 804-811)
StoreClear ==
  /\ pc = "prompt"
  /\ messages' = <<SystemMessage(cfg)>>
  /\ history' = <<>>
  /\ historyState' = [historyState EXCEPT !.chats = ClearOf(@, currentChat)]
  /\ disk' = saveHistoryState(historyState')
  /\ CommandResult(OutOk)
  /\ Did(Cmd("clear", "", FileMissing))
  /\ UNCHANGED <<cfg, currentChat>>

NextLoad ==
  \/ LoadState \/ MainStart \/ StoreClear
  \/ StoreChatNew \/ StoreChatUse \/ StoreChatDelete \/ StoreImport

SpecLoad == InitLoad /\ [][NextLoad]_vars

\* ------------------------------- multi-chat build: the tools, step by step
\* src/index.js 771-780, with a key set and cfg.auto_yes either way
InitTools ==
  /\ \E yes \in BOOLEAN :
       cfg = [api_key |-> "sk", profile |-> "default", autopilot |-> FALSE,
              autopilot_steps |-> Whole(0), auto_yes |-> yes]
  /\ disk = FileMissing
  /\ historyState = loadHistoryState(disk)
  /\ currentChat = historyState.current
  /\ history = GetChat(historyState.chats, currentChat)
  /\ messages = <<SystemMessage(cfg)>> \o history
  /\ pc = "prompt"
  /\ msg = NoMessage
  /\ i = 0
  /\ auto = NoAuto
  /\ out = OutNone
  /\ obs = Idle(0)
  /\ \E fs \in StartFs : env = [NoEnv EXCEPT !.fs = fs]

\* the response carries tool calls: src/index.js 1018-1027, 506-516
ToolsToolCalls ==
  /\ pc = "callApi"
  /\ SendsRequest(cfg)
  /\ obs.apiCalls + 1 < MaxApiCalls
  /\ \E m \in ToolBatchResponses :
       /\ env.calls + Len(m.tool_calls) <= MaxToolCalls
       /\ HandleToolsBegin(m)
       /\ env' = [env EXCEPT !.calls = @ + Len(m.tool_calls)]
  /\ obs' = Called(obs, TRUE)
  /\ UNCHANGED <<cfg, historyState, currentChat, history, disk, auto, out>>

\* the call of the batch, or the step of the chain, that executeTool is given
CurrentStep == env.chain.steps[env.chain.k]

CurrentName == IF env.chain.active THEN CurrentStep.tool ELSE msg.tool_calls[i].name

CurrentArgs ==
  IF env.chain.active THEN StepArgs(CurrentStep)
  ELSE DecodeArguments(msg.tool_calls[i].arguments)

CurrentPlan == executeTool(CurrentName, CurrentArgs, env.fs)

CurrentInvocation ==
  LET args == CurrentArgs
      writes == /\ CleanName(CurrentName) = "write_file"
                /\ ~args.null
                /\ {"path", "content"} \subseteq args.has
  IN  [Invocation(CurrentName, ~env.chain.active, msg.tool_calls[i].id,
                  ~env.chain.active /\ ~JsonParse(msg.tool_calls[i].arguments).ok,
                  /\ writes
                  /\ env.fs[args.path].exists
                  /\ env.fs[args.path].content = args.content)
         EXCEPT !.fresh = writes /\ ~env.fs[args.path].exists]

\* executeTool has returned text; e is the environment it leaves.  In a chain:
\* src/index.js 452-455; in the batch: src/index.js 524-525
Deliver(text, e) ==
  IF e.chain.active
  THEN LET outputs == Append(e.chain.outputs,
                             [step |-> e.chain.k, tool |-> e.chain.steps[e.chain.k].tool,
                              result |-> text])
       IN  IF e.chain.k < Len(e.chain.steps)
           THEN /\ env' = [e EXCEPT !.chain.k = @ + 1, !.chain.outputs = outputs]
                /\ pc' = "tools"
                /\ UNCHANGED <<messages, msg, i, obs>>
           ELSE /\ env' = [e EXCEPT !.chain.active = FALSE, !.chain.outputs = outputs,
                                    !.chain.ended = "returned"]
                /\ HandleToolsPush(Stringify(outputs))
  ELSE /\ env' = e
       /\ HandleToolsPush(text)

\* the handler does what it was asked to and returns: src/index.js 368-370,
\* 378-386, 397-415, 427-441
Perform(plan, e) ==
  LET fs == IF plan.act = "write"
            THEN [e.fs EXCEPT ![CurrentArgs.path] = FileOf(CurrentArgs.content)]
            ELSE e.fs
  IN  Deliver(plan.text, [e EXCEPT !.fs = fs, !.last.acted = TRUE,
                                   !.last.outcome = "returned", !.last.result = plan.text])

\* executeTool is called, for a call of the batch (src/index.js 516-524) or for
\* a step of a chain (src/index.js 448-452), and runs up to its return, its
\* throw or its confirmation prompt.  The steps the remote model sends hold no
\* chain with steps of its own
ToolsInvoke ==
  /\ pc = "tools"
  /\ LET plan == CurrentPlan
         started == [env EXCEPT !.last = CurrentInvocation]
     IN  CASE plan.kind = "throw" ->
                /\ ChatCatch(plan.text, obs)
                /\ env' = [started EXCEPT !.last.outcome = "threw", !.chain.active = FALSE,
                                          !.chain.ended = IF env.chain.active THEN "threw" ELSE @]
           [] plan.kind = "return" ->
                /\ Deliver(plan.text, [started EXCEPT !.last.outcome = "returned",
                                                      !.last.result = plan.text])
                /\ UNCHANGED <<cfg, historyState, currentChat, history, disk, auto, out>>
           [] plan.kind = "act" ->
                /\ Perform(plan, started)
                /\ UNCHANGED <<cfg, historyState, currentChat, history, disk, auto, out>>
           [] plan.kind = "gate" ->
                /\ IF ConfirmAtOnce(cfg)
                   THEN Perform(plan, [started EXCEPT !.last.gate = "approved",
                                                      !.last.asks = Len(plan.gates)])
                   ELSE /\ pc' = "confirm"
                        /\ env' = [started EXCEPT !.last.gate = "asked",
                                                  !.last.asks = 1,
                                                  !.confirm = ConfirmOpen(@)]
                        /\ UNCHANGED <<messages, msg, i, obs>>
                /\ UNCHANGED <<cfg, historyState, currentChat, history, disk, auto, out>>
           [] plan.kind = "chain" ->
                /\ ~env.chain.active
                /\ env' = [started EXCEPT !.chain = [active |-> TRUE, steps |-> CurrentArgs.steps,
                                                     k |-> 1, outputs |-> <<>>, ended |-> "no"]]
                /\ pc' = "tools"
                /\ UNCHANGED <<messages, msg, i, obs>>
                /\ UNCHANGED <<cfg, historyState, currentChat, history, disk, auto, out>>

\* the pending confirm is resolved, by a line of input or by its timer:
\* src/index.js 305-322, and the handler goes on: to its return when it was
\* denied, to its next confirm when it has one, and to its act
ToolsConfirm ==
  /\ pc = "confirm"
  /\ \E ev \in ConfirmEvents :
       LET resolved == [env EXCEPT !.confirm = ConfirmResolve(@, ev),
                                   !.last.by = ev.by, !.last.input = ev.data]
           denied == CurrentPlan.gates[env.last.asks]
       IN  IF ~Decision(ev)
           THEN Deliver(denied,
                        [resolved EXCEPT !.last.gate = "denied", !.last.outcome = "returned",
                                         !.last.result = denied])
           ELSE IF env.last.asks < Len(CurrentPlan.gates)
           THEN /\ env' = [resolved EXCEPT !.last.asks = @ + 1, !.confirm = ConfirmOpen(@)]
                /\ pc' = "confirm"
                /\ UNCHANGED <<messages, msg, i, obs>>
           ELSE Perform(CurrentPlan, [resolved EXCEPT !.last.gate = "approved"])
  /\ UNCHANGED <<cfg, historyState, currentChat, history, disk, auto, out>>

NextTools ==
  \/ ChatUserInput \/ ChatCallApiError \/ ChatFinal
  \/ ToolsToolCalls \/ ToolsInvoke \/ ToolsConfirm

SpecTools == InitTools /\ [][NextTools]_vars

\* ------------------------------- multi-chat build: batches of write_file
\* the write_file calls the remote model asks for: a short and a long path with
\* a text, and a short path with the empty text
WriteCallKinds ==
  { [name |-> "write_file", arguments |-> "{\"path\":\"/a\",\"content\":\"old\"}"],
    [name |-> "write_file", arguments |-> "{\"path\":\"/tmp/a\",\"content\":\"old\"}"],
    [name |-> "write_file", arguments |-> "{\"path\":\"/a\",\"content\":\"\"}"] }

WriteBatches ==
  UNION { { [k \in 1..len |-> ToolCall(k, f[k])] : f \in [1..len -> WriteCallKinds] } : len \in {1, 2} }

\* the response carries calls of write_file: src/index.js 1018-1027, 506-516
WriteToolCalls ==
  /\ pc = "callApi"
  /\ SendsRequest(cfg)
  /\ obs.apiCalls + 1 < MaxApiCalls
  /\ \E tc \in WriteBatches :
       /\ env.calls + Len(tc) <= MaxToolCalls
       /\ HandleToolsBegin(Message("assistant", Null, tc, Undefined))
       /\ env' = [env EXCEPT !.calls = @ + Len(tc)]
  /\ obs' = Called(obs, TRUE)
  /\ UNCHANGED <<cfg, historyState, currentChat, history, disk, auto, out>>

NextWrite ==
  \/ ChatUserInput \/ ChatCallApiError \/ ChatFinal
  \/ WriteToolCalls \/ ToolsInvoke \/ ToolsConfirm

SpecWrite == InitTools /\ [][NextWrite]_vars

\* ------------------------------- multi-chat build: http_request, in time
\* the calls of http_request the remote model asks for: with a url and without
HttpCallKinds ==
  { [name |-> "http_request", arguments |-> "{\"url\":\"u\"}"],
    [name |-> "http_request", arguments |-> "{"] }

HttpBatches ==
  UNION { { [k \in 1..len |-> ToolCall(k, f[k])] : f \in [1..len -> HttpCallKinds] } : len \in {1, 2} }

\* the response carries calls of http_request: src/index.js 1018-1027, 506-516
HttpToolCalls ==
  /\ pc = "callApi"
  /\ SendsRequest(cfg)
  /\ obs.apiCalls + 1 < MaxApiCalls
  /\ \E tc \in HttpBatches :
       /\ env.calls + Len(tc) <= MaxToolCalls
       /\ HandleToolsBegin(Message("assistant", Null, tc, Undefined))
       /\ env' = [env EXCEPT !.calls = @ + Len(tc)]
  /\ obs' = Called(obs, TRUE)
  /\ UNCHANGED <<cfg, historyState, currentChat, history, disk, auto, out>>

\* the ways await fetch(...) and await res.text() can end: with the response,
\* with an error of the transport, and with the AbortError of the signal
FetchOutcomes == {"response", "error", "abort"}

\* httpRequest that lets the AbortError go
HttpResultRethrows(o) ==
  CASE o = "response" -> Returns(<<"STATUS">>)
    [] o = "abort" -> Throws(<<"AbortError">>)
    [] OTHER -> Returns(<<"HTTP Error", "fetch failed">>)

\* what httpRequest returns: src/index.js 406-417.  The catch names the
\* AbortError "Timeout" and every other error by its message
HttpResult(o) ==
  CASE o = "response" -> Returns(<<"STATUS">>)
    [] o = "abort" -> Returns(<<"HTTP Error", "Timeout">>)
    [] OTHER -> Returns(<<"HTTP Error", "fetch failed">>)

\* finally { clearTimeout(t) }: src/index.js 418
HttpFinally(h) == [h EXCEPT !.timers = 0]

\* const t = setTimeout(() => controller.abort(), timeout_ms), and fetch is
\* awaited: src/index.js 394-404
HttpBegin(e) ==
  /\ env' = [e EXCEPT !.http = [id |-> e.last.id, timers |-> 1, aborted |-> FALSE]]
  /\ pc' = "fetch"
  /\ UNCHANGED <<messages, msg, i, obs, out>>

\* executeTool is called for a call of http_request and runs up to its return
\* or its confirmation prompt: src/index.js 389-392
HttpInvoke ==
  /\ pc = "tools"
  /\ LET plan == CurrentPlan
         started == [env EXCEPT !.last = CurrentInvocation]
     IN  IF plan.kind = "return"
         THEN /\ Deliver(plan.text, [started EXCEPT !.last.outcome = "returned",
                                                    !.last.result = plan.text])
              /\ UNCHANGED out
         ELSE IF ConfirmAtOnce(cfg)
         THEN HttpBegin([started EXCEPT !.last.gate = "approved", !.last.asks = 1])
         ELSE /\ pc' = "confirm"
              /\ env' = [started EXCEPT !.last.gate = "asked", !.last.asks = 1,
                                        !.confirm = ConfirmOpen(@)]
              /\ UNCHANGED <<messages, msg, i, obs, out>>
  /\ UNCHANGED <<cfg, historyState, currentChat, history, disk, auto>>

\* the pending confirm is resolved: src/index.js 391-392
HttpConfirm ==
  /\ pc = "confirm"
  /\ \E ev \in ConfirmEvents :
       LET resolved == [env EXCEPT !.confirm = ConfirmResolve(@, ev),
                                   !.last.by = ev.by, !.last.input = ev.data]
       IN  IF Decision(ev)
           THEN HttpBegin([resolved EXCEPT !.last.gate = "approved"])
           ELSE /\ Deliver(CurrentPlan.denied,
                           [resolved EXCEPT !.last.gate = "denied", !.last.outcome = "returned",
                                            !.last.result = CurrentPlan.denied])
                /\ UNCHANGED out
  /\ UNCHANGED <<cfg, historyState, currentChat, history, disk, auto>>

\* the timer fires: controller.abort()  (src/index.js 395).  It fires while
\* it is pending, during the fetch or, when nothing has cleared it, later
HttpTimer ==
  /\ env.http.timers > 0
  /\ env' = [env EXCEPT !.http.timers = @ - 1, !.http.aborted = TRUE]
  /\ UNCHANGED <<cfg, historyState, currentChat, history, messages, disk, pc, msg, i, auto,
                 out, obs>>

\* the fetch ends, and httpRequest with it: src/index.js 397-418.  Once the
\* controller has aborted, the fetch ends with the AbortError
HttpSettle ==
  /\ pc = "fetch"
  /\ \E o \in IF env.http.aborted THEN {"abort"} ELSE {"response", "error"} :
       LET plan == HttpResult(o)
           after == [env EXCEPT !.http = HttpFinally(@), !.last.acted = TRUE]
       IN  IF plan.kind = "throw"
           THEN /\ ChatCatch(plan.text, obs)
                /\ env' = [after EXCEPT !.last.outcome = "threw"]
           ELSE /\ Deliver(plan.text, [after EXCEPT !.last.outcome = "returned",
                                                    !.last.result = plan.text])
                /\ UNCHANGED <<cfg, historyState, currentChat, history, disk, auto, out>>

NextHttp ==
  \/ ChatUserInput \/ ChatCallApiError \/ ChatFinal
  \/ HttpToolCalls \/ HttpInvoke \/ HttpConfirm \/ HttpTimer \/ HttpSettle

SpecHttp == InitTools /\ [][NextHttp]_vars

\* ------------------------------- multi-chat build: the round loop, in time
\* the calls the remote model asks for: one that returns, one that throws
\* (run_shell without cmd), one that asks for confirmation, one of no tool
RoundCallKinds ==
  { [name |-> "list_dir", arguments |-> "{"],
    [name |-> "run_shell", arguments |-> "{"],
    [name |-> "run_shell", arguments |-> "{\"cmd\":\"echo hi\"}"],
    [name |-> "nope", arguments |-> "null"] }

RoundBatches ==
  UNION { { [k \in 1..len |-> ToolCall(k, f[k])] : f \in [1..len -> RoundCallKinds] } : len \in {1, 2} }

\* the response carries tool calls: src/index.js 1018-1027, 506-516
RoundToolCalls ==
  /\ pc = "callApi"
  /\ SendsRequest(cfg)
  /\ obs.apiCalls + 1 < MaxApiCalls
  /\ \E tc \in RoundBatches :
       /\ env.calls + Len(tc) <= MaxToolCalls
       /\ HandleToolsBegin(Message("assistant", Null, tc, Undefined))
       /\ env' = [env EXCEPT !.calls = @ + Len(tc)]
  /\ obs' = Called(obs, TRUE)
  /\ UNCHANGED <<cfg, historyState, currentChat, history, disk, auto, out>>

NextRounds ==
  \/ ChatUserInput \/ ChatCallApiError \/ ChatFinal
  \/ RoundToolCalls \/ ToolsInvoke \/ ToolsConfirm

\* every await of the round is resolved in the end: the request by the response
\* or the error of fetch, a tool by its return or its throw, the confirm by the
\* line typed or by its timer of ten seconds (src/index.js 305-322)
FairRounds ==
  /\ WF_vars(ChatCallApiError \/ ChatFinal \/ RoundToolCalls)
  /\ WF_vars(ToolsInvoke)
  /\ WF_vars(ToolsConfirm)

SpecRounds == InitTools /\ [][NextRounds]_vars /\ FairRounds

\* ------------------------------------------------ autopilot build: main
DefaultSteps == 5

\* cfg.autopilot_steps when main starts: DEFAULT_CONFIG.autopilot_steps
\* (src/index.js 1119), or the number the configuration file holds, which
\* loadConfig takes as it is (src/index.js 1200-1209): 0, or one below 0
StartSteps == {Whole(DefaultSteps), Whole(0), Whole(0 - 3)}

StartFilesAuto == {FileMissing, FileArray(OldExchange)}

\* src/index.js 1451-1462
InitAuto ==
  /\ cfg \in { [api_key |-> "", profile |-> "default", autopilot |-> FALSE, autopilot_steps |-> n] :
               n \in StartSteps }
  /\ disk \in StartFilesAuto
  /\ history = loadHistory(disk)
  /\ messages = <<SystemMessage(cfg)>> \o history
  /\ historyState = Fallback
  /\ currentChat = "default"
  /\ pc = "prompt"
  /\ msg = NoMessage
  /\ i = 0
  /\ auto = NoAuto
  /\ out = OutNone
  /\ obs = Idle(0)
  /\ env = NoEnv

AutoCommandFrame(result) ==
  /\ pc' = "prompt"
  /\ out' = result
  /\ obs' = Idle(obs.apiCalls)
  /\ auto' = NoAuto
  /\ UNCHANGED <<msg, i, historyState, currentChat, env>>

\* /clear  (src/index.js 1470-1476)
AutoClear ==
  /\ pc = "prompt"
  /\ messages' = <<SystemMessage(cfg)>>
  /\ history' = <<>>
  /\ disk' = saveHistory(<<>>)
  /\ AutoCommandFrame(OutOk)
  /\ UNCHANGED cfg

\* /key <key>  (src/index.js 1477-1482)
AutoKey ==
  /\ pc = "prompt"
  /\ \E k \in KeyInputs : cfg' = [cfg EXCEPT !.api_key = k]
  /\ AutoCommandFrame(OutOk)
  /\ UNCHANGED <<history, messages, disk>>

\* Math.max(1, x)
AtLeastOne(x) == IF x.int < 1 THEN Whole(1) ELSE x

\* what a user may type after /autopilot steps
StepInputs == {"0", "2", "1.5", "-3", "abc"}

\* Number(val), for the texts of StepInputs: not a number (nan), or the number
NumberOf(val) ==
  CASE val = "0" -> [nan |-> FALSE, num |-> Whole(0)]
    [] val = "2" -> [nan |-> FALSE, num |-> Whole(2)]
    [] val = "1.5" -> [nan |-> FALSE, num |-> Num(1, TRUE)]
    [] val = "-3" -> [nan |-> FALSE, num |-> Whole(0 - 3)]
    [] OTHER -> [nan |-> TRUE, num |-> Whole(0)]

\* the words a user may type after /autopilot: none, the commands, and one
\* that is no command
AutopilotCmds == {"", "status", "on", "off", "steps", "nope"}

\* /autopilot [status|on|off|steps N], for the words typed (src/index.js
\* 1514-1531); val is "" when there is no third word
AutopilotOf(cmd, val) ==
  CASE cmd \in {"", "status"} -> AutoCommandFrame(OutOk) /\ UNCHANGED cfg
    [] cmd \in {"on", "off"} ->
         cfg' = [cfg EXCEPT !.autopilot = (cmd = "on")] /\ AutoCommandFrame(OutOk)
    [] cmd = "steps" /\ val # "" /\ ~NumberOf(val).nan ->
         /\ cfg' = [cfg EXCEPT !.autopilot_steps = AtLeastOne(NumberOf(val).num)]
         /\ AutoCommandFrame(OutOk)
    [] OTHER ->
         AutoCommandFrame(OutErr("use: /autopilot on|off|steps N|status")) /\ UNCHANGED cfg

Autopilot ==
  /\ pc = "prompt"
  /\ \E cmd \in AutopilotCmds, val \in StepInputs \cup {""} : AutopilotOf(cmd, val)
  /\ UNCHANGED <<history, messages, disk>>

\* ------------------------------------- autopilot build: runAutopilot
\* the synthetic continuation prompt: src/index.js 1447
ContinuePrompt == <<"<AUTO>">>

\* cfg.autopilot_steps || 5: src/index.js 1433
MaxStepsOf(c) ==
  IF IsZero(c.autopilot_steps) THEN Whole(DefaultSteps) ELSE c.autopilot_steps

\* reply === doneTag
HasDoneTagExact(reply) == reply = DoneTag

\* reply.includes(doneTag): src/index.js 1437
HasDoneTag(reply) == Includes(reply, DoneTag)

\* the test of line 1441 left out
ContinuesAlways(c, force) == TRUE

\* cfg.autopilot || force: src/index.js 1441
Continues(c, force) == c.autopilot \/ force

\* sendToAssistant, up to its first callApi: src/index.js 1405-1410
SendToAssistantBegin(text, msgs) ==
  /\ messages' = Append(msgs, UserMessage(text))
  /\ pc' = "callApi"
  /\ msg' = NoMessage
  /\ i' = 0

\* main after runAutopilot has returned: src/index.js 1536-1538, 1551-1552
AutoSave(msgs) ==
  /\ messages' = msgs
  /\ history' = FilterNonSystem(msgs)
  /\ disk' = saveHistory(history')
  /\ pc' = "prompt"
  /\ msg' = NoMessage
  /\ i' = 0

\* runAutopilot from the return of sendToAssistant to the next await:
\* src/index.js 1435-1448.  msgs is the conversation sendToAssistant left, o the
\* observations up to its return
AfterReply(reply, msgs, o) ==
  IF HasDoneTag(reply)
  THEN /\ auto' = [auto EXCEPT !.running = FALSE, !.halt = "done"]
       /\ obs' = o
       /\ AutoSave(msgs)
  ELSE IF ~Continues(cfg, auto.force)
  THEN /\ auto' = [auto EXCEPT !.running = FALSE, !.halt = "manual"]
       /\ obs' = o
       /\ AutoSave(msgs)
  ELSE IF AtLeast(auto.steps + 1, auto.maxSteps)
  THEN /\ auto' = [auto EXCEPT !.running = FALSE, !.steps = @ + 1, !.halt = "limit"]
       /\ obs' = o
       /\ AutoSave(msgs)
  ELSE /\ auto' = [auto EXCEPT !.steps = @ + 1]
       /\ obs' = [o EXCEPT !.rounds = @ + 1, !.base = msgs, !.batches = 0]
       /\ SendToAssistantBegin(ContinuePrompt, msgs)
       /\ UNCHANGED <<history, disk>>

\* /auto <goal> (force) or a plain message: src/index.js 1532-1535, 1550, 1430-1435
RunAutopilot ==
  /\ pc = "prompt"
  /\ obs.apiCalls < MaxAutoCalls
  /\ \E force \in BOOLEAN :
       auto' = [running |-> TRUE, force |-> force, steps |-> 0,
                maxSteps |-> MaxStepsOf(cfg), halt |-> "none"]
  /\ \E text \in UserTexts : SendToAssistantBegin(text, messages)
  /\ out' = OutNone
  /\ TurnStart
  /\ UNCHANGED <<cfg, historyState, currentChat, history, disk, env>>

\* the catch of sendToAssistant, which returns "": src/index.js 1422-1427
AutoCatch(e, o) ==
  /\ out' = LogErr(e)
  /\ AfterReply(<<>>, Pop(messages), [Failed(o, e) EXCEPT !.reply = <<>>])
  /\ UNCHANGED <<cfg, historyState, currentChat, env>>

\* callApi throws before any request: src/index.js 1280
AutoCallApiNoKey ==
  /\ pc = "callApi"
  /\ obs.apiCalls < MaxAutoCalls
  /\ ~SendsRequest(cfg)
  /\ AutoCatch(ErrNoKey, Called(obs, FALSE))

\* the request fails: src/index.js 1290-1303
AutoCallApiError ==
  /\ pc = "callApi"
  /\ obs.apiCalls < MaxAutoCalls
  /\ SendsRequest(cfg)
  /\ \E e \in RequestErrors : AutoCatch(e, Called(obs, TRUE))

\* the response carries tool calls: src/index.js 1410-1413, 1306-1310
AutoToolCalls ==
  /\ pc = "callApi"
  /\ obs.apiCalls + 1 < MaxAutoCalls
  /\ SendsRequest(cfg)
  /\ \E m \in ToolCallResponses : HandleToolsBegin(m)
  /\ obs' = Called(obs, TRUE)
  /\ UNCHANGED <<cfg, historyState, currentChat, history, disk, auto, out, env>>

\* one call of the batch: src/index.js 1310-1322
AutoToolStep ==
  /\ pc = "tools"
  /\ \E o \in ExecuteToolOutcomes(msg.tool_calls[i]) :
       IF o.throws
       THEN AutoCatch(o.result, obs)
       ELSE /\ HandleToolsPush(o.result)
            /\ UNCHANGED <<cfg, historyState, currentChat, history, disk, auto, out, env>>

\* the response carries no tool call: src/index.js 1413-1420
AutoFinal ==
  /\ pc = "callApi"
  /\ obs.apiCalls < MaxAutoCalls
  /\ SendsRequest(cfg)
  /\ \E m \in FinalResponses(Contents) :
       AfterReply(ContentOrEmpty(m.content), Append(messages, m),
                  [Called(obs, TRUE) EXCEPT !.completed = TRUE,
                                            !.reply = ContentOrEmpty(m.content)])
  /\ out' = OutAnswer
  /\ UNCHANGED <<cfg, historyState, currentChat, env>>

NextAuto ==
  \/ AutoClear \/ AutoKey \/ Autopilot \/ RunAutopilot
  \/ AutoCallApiNoKey \/ AutoCallApiError \/ AutoToolCalls \/ AutoToolStep \/ AutoFinal

SpecAuto == InitAuto /\ [][NextAuto]_vars

\* ------------------------- autopilot build: /shell and its confirmation
\* src/index.js 1459-1466, with cfg.auto_yes either way (src/index.js 1115)
InitAutoGate ==
  /\ \E yes \in BOOLEAN :
       cfg = [api_key |-> "", profile |-> "default", autopilot |-> FALSE,
              autopilot_steps |-> Whole(DefaultSteps), auto_yes |-> yes]
  /\ disk \in StartFilesAuto
  /\ history = loadHistory(disk)
  /\ messages = <<SystemMessage(cfg)>> \o history
  /\ historyState = Fallback
  /\ currentChat = "default"
  /\ pc = "prompt"
  /\ msg = NoMessage
  /\ i = 0
  /\ auto = NoAuto
  /\ out = OutNone
  /\ obs = Idle(0)
  /\ env = NoEnv

\* runShell(cmd, auto_yes) of the autopilot build, for a cmd that is a string:
\* src/index.js 1265-1278
AutoRunShellPlan(cmd) == Plan("gate", "exec", <<"STDOUT">>, <<"cancelled by the user">>)

\* the promise is made: the prompt is written and a one-time listener is put on
\* stdin; no timer is set.  src/index.js 1221-1224
AutoConfirmOpen(c) ==
  [pending |-> c.pending + 1, listeners |-> c.listeners + 1, timers |-> c.timers]

\* the one-time listener is called, and is gone: src/index.js 1223
AutoConfirmOnData(c) ==
  [pending |-> c.pending - 1, listeners |-> c.listeners - 1, timers |-> c.timers]

\* a confirm that its timer resolves as well
AutoConfirmEventsWithTimer == ConfirmEvents

\* what resolves a pending confirm of the autopilot build: data on stdin, and
\* nothing else.  src/index.js 1223
AutoConfirmEvents == { [by |-> "input", data |-> d] : d \in ConfirmInputs }

\* /shell <cmd>, up to runShell's confirm: src/index.js 1513, 1265-1266
AutoShell ==
  /\ pc = "prompt"
  /\ LET plan == AutoRunShellPlan("echo hi")
         started == [env EXCEPT !.last = Invocation("run_shell", TRUE, "", FALSE, FALSE)]
     IN  IF ConfirmAtOnce(cfg)
         THEN /\ env' = [started EXCEPT !.last.gate = "approved", !.last.acted = TRUE,
                                        !.last.outcome = "returned", !.last.result = plan.text]
              /\ pc' = "prompt"
              /\ out' = plan.text
         ELSE /\ env' = [started EXCEPT !.last.gate = "asked", !.confirm = AutoConfirmOpen(@)]
              /\ pc' = "confirm"
              /\ out' = OutNone
  /\ obs' = Idle(obs.apiCalls)
  /\ auto' = NoAuto
  /\ UNCHANGED <<cfg, historyState, currentChat, history, messages, disk, msg, i>>

\* the pending confirm is resolved and runShell goes on: src/index.js 1223,
\* 1267-1277, 1513
AutoShellConfirm ==
  /\ pc = "confirm"
  /\ \E ev \in AutoConfirmEvents :
       LET plan == AutoRunShellPlan("echo hi")
           resolved == [env EXCEPT !.confirm = AutoConfirmOnData(@),
                                   !.last.by = ev.by, !.last.input = ev.data,
                                   !.last.outcome = "returned"]
       IN  IF Decision(ev)
           THEN /\ env' = [resolved EXCEPT !.last.gate = "approved", !.last.acted = TRUE,
                                           !.last.result = plan.text]
                /\ out' = plan.text
           ELSE /\ env' = [resolved EXCEPT !.last.gate = "denied", !.last.result = plan.denied]
                /\ out' = plan.denied
  /\ pc' = "prompt"
  /\ UNCHANGED <<cfg, historyState, currentChat, history, messages, disk, msg, i, auto, obs>>

NextAutoGate ==
  \/ AutoClear \/ AutoKey \/ Autopilot \/ AutoShell \/ AutoShellConfirm

SpecAutoGate == InitAutoGate /\ [][NextAutoGate]_vars

\* ---------------------------------------------------------------- claims
\* the session the store holds under the name in use
StoredChat == GetChatOrEmpty(historyState.chats, currentChat)

\* the same session as HIST_FILE held it when the turn began
StoredChatAtStart == GetChatOrEmpty(loadHistoryState(obs.diskBase).chats, currentChat)

\* C1: in the multi-chat build historyState.current always names a key of
\* historyState.chats, whatever session operations came before
C1_CurrentNamesAChat == HasChat(historyState.chats, historyState.current)

\* C2: once a round has failed, the conversation is what it was before the
\* user's message was appended
C2_FailedRoundRestores ==
  (pc = "prompt" /\ obs.failed) => messages = obs.base

\* C3: a round stopped by the missing API key has sent no request, and the
\* conversation after the error no longer holds the user's message
C3_NoKeyNoRequest ==
  (pc = "prompt" /\ out = LogErr(ErrNoKey)) => (~obs.sent /\ messages = obs.base)

C3_Witness ==
  /\ pc = "prompt"
  /\ out = LogErr(ErrNoKey)
  /\ obs.failed
  /\ Len(obs.base) > 1

\* C4: after a turn whose round failed and in which no round completed, the
\* stored history is the stored history of before the user's message
C4_FailedRoundKeepsFile ==
  (pc = "prompt" /\ obs.failed /\ ~obs.completed)
    => loadHistory(disk) = loadHistory(obs.diskBase)

\* C5: while a round is in progress the stored history holds everything that
\* came before that round, the earlier rounds of the same autopilot run included
C5_EarlierRoundsStored ==
  (pc # "prompt") => loadHistory(disk) = FilterNonSystem(obs.base)

\* C6: once a request has failed in a turn, the turn is over: no model call
\* is pending or made for that input
C6_NoCallAfterRequestError == obs.neterr => pc = "prompt"

\* C7: when a reply holds the sentinel the run is over at once, in whatever
\* round and whether or not autopilot is enabled or forced: the reply is the
\* last message of the conversation and no further round is begun
C7_SentinelStops ==
  Includes(obs.reply, DoneTag)
    => /\ pc = "prompt"
       /\ auto.halt = "done"
       /\ ~auto.running
       /\ Last(messages).role = "assistant"
       /\ Last(messages).content = obs.reply

C7_Witness ==
  /\ Includes(obs.reply, DoneTag)
  /\ obs.rounds = 2
  /\ auto.force
  /\ pc = "prompt"

\* C8: a forced or enabled run without sentinel, and without a failed round,
\* never runs more rounds than cfg.autopilot_steps, and when it halts at the
\* limit it has run exactly cfg.autopilot_steps rounds
C8_ExactlyBudgetRounds ==
  (auto.running \/ auto.halt # "none") /\ Continues(cfg, auto.force) /\ ~obs.failed
    => /\ obs.rounds <= cfg.autopilot_steps.int
       /\ auto.halt = "limit" => cfg.autopilot_steps = Whole(obs.rounds)

\* the messages appended since the turn began hold no continuation prompt
NoContinuation ==
  \A k \in (Len(obs.base) + 1)..Len(messages) : messages[k].content # ContinuePrompt

\* C9: a run that is neither enabled nor forced makes one round: it is left
\* after the first reply, with or without sentinel, and appends no
\* continuation prompt
C9_OneRoundWhenManual ==
  (auto.running \/ auto.halt # "none") /\ ~auto.force /\ ~cfg.autopilot
    => /\ obs.rounds = 1
       /\ NoContinuation
       /\ pc = "prompt" => auto.halt \in {"manual", "done"}

C9_Witness ==
  /\ pc = "prompt"
  /\ auto.halt = "manual"
  /\ ~auto.force
  /\ obs.completed
  /\ ~Includes(obs.reply, DoneTag)

RECURSIVE BatchesThenFinal(_, _)
\* from position k on, s is a run of batches (an assistant message with tool
\* calls, then one tool message per call, in call order) and then one
\* assistant message without tool calls, which ends it
BatchesThenFinal(s, k) ==
  IF k > Len(s) \/ s[k].role # "assistant" THEN FALSE
  ELSE IF s[k].tool_calls = <<>> THEN k = Len(s)
  ELSE LET calls == s[k].tool_calls IN
       /\ k + Len(calls) <= Len(s)
       /\ \A j \in 1..Len(calls) :
            s[k + j].role = "tool" /\ s[k + j].tool_call_id = calls[j].id
       /\ BatchesThenFinal(s, k + Len(calls) + 1)

\* the number of messages of s that carry tool calls
RECURSIVE BatchCount(_)
BatchCount(s) ==
  IF s = <<>> THEN 0
  ELSE (IF s[1].tool_calls # <<>> THEN 1 ELSE 0) + BatchCount(Tail(s))

\* C10: a completed round on an empty session (nothing stored, nothing in the
\* conversation but the system message) stores the user message, the batches
\* in order, then the final assistant message, and no system message; one
\* batch of one call makes 4 messages
C10_StoredRoundShape ==
  (pc = "prompt" /\ obs.completed /\ Len(obs.base) = 1 /\ StoredChatAtStart = <<>>)
    => /\ Len(StoredChat) >= 2
       /\ StoredChat[1].role = "user"
       /\ BatchesThenFinal(StoredChat, 2)
       /\ \A k \in 1..Len(StoredChat) : StoredChat[k].role # "system"
       /\ BatchCount(StoredChat) = obs.batches
       /\ (obs.batches = 1 /\ Len(StoredChat[2].tool_calls) = 1) => Len(StoredChat) = 4
       /\ loadHistoryState(disk).chats = historyState.chats

C10_Witness ==
  /\ pc = "prompt"
  /\ obs.completed
  /\ Len(obs.base) = 1
  /\ StoredChatAtStart = <<>>
  /\ obs.batches = 1
  /\ Len(StoredChat) = 5

\* position k of s holds a tool message that answers a call of the nearest
\* assistant message before it, with only tool messages in between
AnswersNearestAssistant(s, k) ==
  \E a \in 1..(k - 1) :
    /\ s[a].role = "assistant"
    /\ \A j \in (a + 1)..k : s[j].role = "tool"
    /\ \E c \in 1..Len(s[a].tool_calls) : s[a].tool_calls[c].id = s[k].tool_call_id

NoSystemIn(s) == \A k \in 1..Len(s) : s[k].role # "system"

BatchAnswered(n) ==
  LET len == Len(messages) IN
  /\ len > n
  /\ messages[len - n].role = "assistant"
  /\ Len(messages[len - n].tool_calls) >= n
  /\ \A j \in 1..n :
       /\ messages[len - n + j].role = "tool"
       /\ messages[len - n + j].tool_call_id = messages[len - n].tool_calls[j].id

\* C11: while a batch is worked on, the call in hand is call i, the tool
\* messages of calls 1..i-1 are appended in call order and nothing else is, and
\* a confirmation prompt on show belongs to the call or chain step in hand;
\* when the batch is done, every call of it has its tool message, in call order
C11_CallsInOrder ==
  /\ (pc = "callApi" /\ Last(messages).role = "tool")
       => \E n \in 1..MaxToolCalls :
            /\ BatchAnswered(n)
            /\ Len(messages[Len(messages) - n].tool_calls) = n
  /\ (pc \in {"tools", "confirm"})
    => /\ i \in 1..Len(msg.tool_calls)
       /\ messages[Len(messages) - (i - 1)] = msg
       /\ BatchAnswered(i - 1)
       /\ pc = "confirm" => (env.last.gate = "asked" /\ env.last.id = msg.tool_calls[i].id)
       /\ env.chain.active => CleanName(msg.tool_calls[i].name) = "tool_chain"

C11_Witness ==
  /\ pc = "confirm"
  /\ i = 2
  /\ env.last.gate = "asked"
  /\ messages[Len(messages)].tool_call_id = msg.tool_calls[1].id

\* C15: a tool_chain given N >= 1 steps returns N entries, entry j holding
\* step number j, the tool of step j and its result, and no step keeps the
\* later steps from being run
C15_ChainReturnsAllEntries ==
  /\ env.chain.ended # "threw"
  /\ env.chain.active => Len(env.chain.outputs) = env.chain.k - 1
  /\ env.chain.ended = "returned"
       => /\ Len(env.chain.outputs) = Len(env.chain.steps)
          /\ \A j \in 1..Len(env.chain.steps) :
               /\ env.chain.outputs[j].step = j
               /\ env.chain.outputs[j].tool = env.chain.steps[j].tool

\* C16: with auto-approve off, a write_file of the text the file holds already
\* does not call the confirmation gate
C16_SameContentNoGate ==
  (env.last.identical /\ ~cfg.auto_yes) => env.last.gate = "none"

\* C17: a tool that acted (ran the command, sent the request, wrote the file)
\* had the gate's approval in that run, and a tool that was denied did not act
\* and returned a cancellation text
C17_NoActWithoutApproval ==
  /\ env.last.acted => env.last.gate = "approved"
  /\ env.last.gate = "denied"
       => /\ ~env.last.acted
          /\ env.last.result \in {<<"Cancelled.">>, <<"Write cancelled.">>, <<"Creation cancelled.">>}

\* a call of the batch that is a run_shell is waiting at the gate
ShellAtGate ==
  /\ pc = "confirm"
  /\ env.last.top
  /\ CleanName(env.last.name) = "run_shell"

C19_ToolsNeverThrow ==
  /\ env.last.outcome # "threw"
  /\ (pc = "prompt" /\ obs.failed) => out \in { LogErr(e) : e \in {ErrNoKey} \cup RequestErrors }

\* C20: a call whose argument text does not decode is run with the empty
\* mapping, and returns: it gets its tool message and the round goes on
C20_MalformedArgumentsGoOn ==
  env.last.malformed
    => /\ env.last.outcome # "threw"
       /\ env.last.outcome = "returned" => (pc \in {"tools", "callApi"} \/ ~env.last.top)

\* a call of the batch whose name executeTool has no case for is in hand
UnknownCallInHand ==
  /\ pc = "tools"
  /\ ~env.chain.active
  /\ CleanName(msg.tool_calls[i].name) \notin Registry

\* C21: a call of the batch whose name is not in the registry gets a tool
\* message that holds the unknown-tool text; no handler acts, no gate is asked,
\* no file changes and nothing is thrown; the loop goes on to the next call of
\* the batch or, after the last one, to the next request to the model
C21_UnknownToolGoesOn ==
  [][ UnknownCallInHand
        => /\ messages' = Append(messages, ToolMessage(msg.tool_calls[i].id, <<"Unknown tool">>))
           /\ pc' = IF i < Len(msg.tool_calls) THEN "tools" ELSE "callApi"
           /\ i' = IF i < Len(msg.tool_calls) THEN i + 1 ELSE 0
           /\ env'.fs = env.fs
           /\ ~env'.last.acted
           /\ env'.last.gate = "none"
           /\ ~obs'.failed
           /\ out' = out ]_vars

C21_Witness ==
  /\ pc = "tools"
  /\ i = 2
  /\ ~env.chain.active
  /\ env.last.top
  /\ env.last.name = "nope"
  /\ env.last.outcome = "returned"
  /\ Last(messages) = ToolMessage(msg.tool_calls[1].id, <<"Unknown tool">>)

\* C22: with auto-approve set, confirm approves at once: no prompt is ever
\* pending, no listener and no timer exists, no input and no timer decides, and
\* a run_shell that returned has run its command
C22_AutoApproveAtOnce ==
  cfg.auto_yes
    => /\ pc # "confirm"
       /\ env.confirm = NoConfirm
       /\ env.last.by = "none"
       /\ env.last.gate \in {"none", "approved"}
       /\ (CleanName(env.last.name) = "run_shell" /\ env.last.outcome = "returned")
            => (env.last.gate = "approved" /\ env.last.acted)

C22_Witness ==
  /\ cfg.auto_yes
  /\ env.last.name = "run_shell"
  /\ env.last.gate = "approved"
  /\ env.last.acted
  /\ env.last.result = <<"STDOUT">>

\* the chunks of ConfirmInputs that are "y" once trimmed and lower-cased
YesInputs == { <<"y", "\n">>, <<" ", "Y", "\n">> }

\* C23: with auto-approve off, a confirm resolved by input approves exactly
\* when the input, trimmed and lower-cased, is "y", and denies otherwise; a
\* confirm resolved by its timer approves; nothing else decides a confirm
C23_InputOrTimerDecides ==
  ~cfg.auto_yes
    => /\ env.last.by = "input"
            => /\ env.last.input \in YesInputs => env.last.gate = "approved"
               /\ env.last.input \notin YesInputs => env.last.gate = "denied"
       /\ env.last.by = "timer" => env.last.gate = "approved"
       /\ env.last.by = "none" => env.last.gate \in {"none", "asked"}
       /\ env.last.gate = "asked" => pc = "confirm"

C23_Witness ==
  /\ ~cfg.auto_yes
  /\ env.last.by = "input"
  /\ env.last.input = <<" ", "Y", "\n">>
  /\ env.last.gate = "approved"
  /\ env.last.acted

\* C25: at most one confirm is pending and at most one listener waits on
\* stdin, and none is left when a call of the batch or a step of a chain begins
C25_OneGateAtATime ==
  /\ env.confirm.pending <= 1
  /\ env.confirm.listeners <= 1
  /\ pc = "confirm" => env.confirm.pending = 1
  /\ pc # "confirm" => (env.confirm.pending = 0 /\ env.confirm.listeners = 0)

C25_Witness ==
  /\ pc = "confirm"
  /\ env.chain.active
  /\ env.chain.k = 2
  /\ env.confirm.pending = 1
  /\ env.last.name = "run_shell"

\* C24: in the autopilot build with auto-approve off, a confirm has no timer
\* and stays pending until data arrives: nothing but input decides it, it
\* approves exactly when the input, trimmed and lower-cased, is "y", and it
\* denies on every other input, the empty line included; a denied command is
\* not run
C24_OnlyInputDecides ==
  ~cfg.auto_yes
    => /\ env.confirm.timers = 0
       /\ pc = "confirm" => (env.last.gate = "asked" /\ env.confirm.pending = 1)
       /\ env.last.gate \in {"approved", "denied"}
            => /\ env.last.by = "input"
               /\ env.last.input \in YesInputs => (env.last.gate = "approved" /\ env.last.acted)
               /\ env.last.input \notin YesInputs => (env.last.gate = "denied" /\ ~env.last.acted)

C24_Witness ==
  /\ ~cfg.auto_yes
  /\ pc = "prompt"
  /\ env.last.by = "input"
  /\ env.last.input = <<"\n">>
  /\ env.last.gate = "denied"
  /\ out = <<"cancelled by the user">>

\* the session names of the model in the order of JavaScript's string
\* comparison
NameOrder ==
  <<"a", "chat-1", "chat-2", "chat-3", "chat-4", "chat-5", "chat-6", "default", "ghost", "toString">>

Rank(name) == CHOOSE k \in 1..Len(NameOrder) : NameOrder[k] = name

\* the lexicographically smallest of a set of names that is not empty
Smallest(names) == CHOOSE x \in names : \A y \in names : Rank(x) <= Rank(y)

\* a session command is taken from the prompt
CommandStep == pc = "prompt" /\ pc' \in {"prompt", "exit"}

\* C26: /chat delete of the current session makes the lexicographically
\* smallest of the names that remain current, and the conversation the system
\* message followed by that session's history; when none remains, an empty
\* session "default" is made and becomes current
C26_DeleteSwitchesToSmallest ==
  [][ (/\ CommandStep
       /\ env'.store.cmd.name = "delete"
       /\ HasChat(historyState.chats, env'.store.cmd.arg)
       /\ historyState.current = env'.store.cmd.arg)
        => LET left == KeySet(historyState.chats) \ {env'.store.cmd.arg} IN
           IF left = {}
           THEN /\ historyState' = Fallback
                /\ currentChat' = "default"
                /\ messages' = <<SystemMessage(cfg)>>
           ELSE /\ historyState'.current = Smallest(left)
                /\ currentChat' = Smallest(left)
                /\ KeySet(historyState'.chats) = left
                /\ messages' = <<SystemMessage(cfg)>> \o GetChat(historyState.chats, Smallest(left)) ]_vars

\* the name-to-messages mapping of two stores is the same
SameMapping(a, b) ==
  /\ KeySet(a) = KeySet(b)
  /\ \A n \in KeySet(a) : GetChat(a, n) = GetChat(b, n)

\* C27: an /import of the file /export wrote gives the store the current
\* pointer and the name-to-messages mapping it had when it was exported,
\* whatever was done to the store in between, and makes the conversation the
\* system message followed by the current session's history
C27_ExportImportRoundTrip ==
  [][ (/\ pc = "prompt"
       /\ env.store.exported.kind # "missing"
       /\ ImportOf(env.store.exported, MaxChats))
        => /\ historyState'.current = env.store.snapshot.current
           /\ SameMapping(historyState'.chats, env.store.snapshot.chats)
           /\ messages' = <<SystemMessage(cfg)>>
                            \o GetChatOrEmpty(historyState'.chats,
                                              OrElse(historyState'.current, "default"))
           /\ out' = OutOk ]_vars

\* the exported file has been imported into a store that had changed since, and
\* the store of two sessions is the exported one again
C27_Witness ==
  /\ env.store.restored
  /\ pc = "prompt"
  /\ out = OutOk
  /\ Len(env.store.snapshot.chats) >= 2
  /\ historyState = env.store.snapshot
  /\ messages = <<SystemMessage(cfg)>> \o GetChat(historyState.chats, historyState.current)

\* the command a step of the session commands carries out
Doing == env'.store.cmd

\* the step leaves the store, the conversation and the persisted file alone and
\* reports an error at the prompt
RejectedStep ==
  /\ out' = <<"err">>
  /\ pc' = "prompt"
  /\ UNCHANGED <<historyState, currentChat, history, messages, disk>>

\* C28: an /import of a file that parses and has no chats field is rejected
\* with an error: the store, the conversation and the persisted file stay as
\* they were
C28_ImportWithoutChatsRejected ==
  [][ (/\ CommandStep
       /\ Doing.name = "import"
       /\ Doing.file.kind # "missing"
       /\ ~(Doing.file.kind = "object" /\ Doing.file.hasChats))
        => RejectedStep ]_vars

\* an object without a chats field has been imported into a store of two
\* sessions and an error reported
C28_Witness ==
  /\ env.store.cmd.name = "import"
  /\ env.store.cmd.file = FileObject(TRUE, "a", FALSE, <<>>)
  /\ out = <<"err">>
  /\ pc = "prompt"
  /\ Len(historyState.chats) >= 2
  /\ disk = saveHistoryState(historyState)

\* C29: /chat new under a name that already names a session fails with an
\* error and changes nothing
C29_NewExistingNameRejected ==
  [][ (/\ CommandStep
       /\ Doing.name = "new"
       /\ HasChat(historyState.chats, Doing.arg))
        => RejectedStep ]_vars

\* /chat new has been given the name of the current session, which holds a
\* stored exchange, and an error reported
C29_Witness ==
  /\ env.store.cmd.name = "new"
  /\ env.store.cmd.arg = historyState.current
  /\ HasChat(historyState.chats, env.store.cmd.arg)
  /\ GetChat(historyState.chats, env.store.cmd.arg) # <<>>
  /\ out = <<"err">>
  /\ pc = "prompt"

\* C30: /chat use under a name that names no session fails with an error,
\* creates no session and leaves the current pointer and the conversation as
\* they were; under the name of a session it makes that session current and
\* the conversation the system message followed by its stored history
C30_UseSwitchesOrRejects ==
  [][ (/\ CommandStep
       /\ Doing.name = "use"
       /\ Doing.arg # "")
        => IF HasChat(historyState.chats, Doing.arg)
           THEN /\ historyState'.current = Doing.arg
                /\ currentChat' = Doing.arg
                /\ historyState'.chats = historyState.chats
                /\ messages' = <<SystemMessage(cfg)>> \o GetChat(historyState.chats, Doing.arg)
                /\ pc' = "prompt"
           ELSE RejectedStep ]_vars

\* C31: loadHistoryState of a file that holds a bare array of messages gives
\* the store whose current is "default" and whose only session "default" holds
\* that array; of a file that holds an object it gives a store whose current
\* names a session of it
C31_LoadUpgradesAndRepairs ==
  pc = "loaded"
    => /\ disk.kind = "array"
            => historyState = [current |-> "default",
                               chats |-> <<[name |-> "default", msgs |-> disk.items]>>]
       /\ disk.kind = "object"
            => HasChat(historyState.chats, historyState.current)

\* C32: /clear empties the current session only: afterwards the stored history
\* of the current session is empty and the conversation is the system message
\* alone, and the current pointer and the history of every other session are
\* as they were
C32_ClearEmptiesCurrentOnly ==
  [][ (CommandStep /\ Doing.name = "clear")
        => /\ GetChatOrEmpty(historyState'.chats, currentChat) = <<>>
           /\ HasChat(historyState'.chats, currentChat)
           /\ messages' = <<SystemMessage(cfg)>>
           /\ history' = <<>>
           /\ historyState'.current = historyState.current
           /\ currentChat' = currentChat
           /\ KeySet(historyState'.chats) = KeySet(historyState.chats) \cup {currentChat}
           /\ \A n \in KeySet(historyState.chats) \ {currentChat} :
                GetChat(historyState'.chats, n) = GetChat(historyState.chats, n)
           /\ disk' = saveHistoryState(historyState') ]_vars

\* /clear has emptied the current session of a store in which another session
\* holds a stored exchange
C32_Witness ==
  /\ env.store.cmd.name = "clear"
  /\ pc = "prompt"
  /\ out = OutOk
  /\ messages = <<SystemMessage(cfg)>>
  /\ HasChat(historyState.chats, currentChat)
  /\ GetChat(historyState.chats, currentChat) = <<>>
  /\ \E n \in KeySet(historyState.chats) \ {currentChat} :
       GetChat(historyState.chats, n) = OldExchange

\* the error a failed round has logged says this
Reported(text) == out[1] = "err" /\ \E k \in 2..Len(out) : out[k] = text

\* C33: the three ways callApi fails are told apart by the caller: a missing
\* key, a status that is no success and a failure of the transport end in
\* three different errors, and a failure by status is not reported as a
\* network failure
C33_FailureKindsDistinct ==
  /\ ErrNoKey # ErrHttp /\ ErrNoKey # ErrTransport /\ ErrHttp # ErrTransport
  /\ Reported("API status") => ~Reported("Network error")

\* C34: with auto-approve off, a write_file to a path that does not exist calls
\* the confirmation once, before anything is written and whatever the size of
\* the content, and no write_file calls it more than once
C34_NewFileAsksOnce ==
  env.last.name = "write_file"
    => /\ env.last.asks <= 1
       /\ (env.last.fresh /\ ~cfg.auto_yes)
            => /\ env.last.asks = 1
               /\ env.last.acted => env.last.gate = "approved"
               /\ pc = "confirm" => ~env.fs[CurrentArgs.path].exists

\* with auto-approve off the empty text has been written to a path that did not
\* exist, after one confirmation answered by the user
C34_Witness ==
  /\ ~cfg.auto_yes
  /\ env.last.name = "write_file"
  /\ env.last.fresh
  /\ env.last.acted
  /\ env.last.asks = 1
  /\ env.last.by = "input"
  /\ env.fs[ShortPath] = FileOf(<<>>)
  /\ ~env.fs[LongPath].exists

\* the tools of a response are being run
RunningTools == pc \in {"tools", "confirm"}

\* C35: within one turn a new request follows every response that carries tool
\* calls, and the loop stops only on a response without tool calls or on a
\* call that failed; the number of its rounds has no cap, so the turn ends
\* exactly when such a response comes or a call fails
C35_RoundsUntilFinalOrFailure ==
  [][ /\ (RunningTools /\ ~RunningTools')
           => (pc' = "callApi" \/ (pc' = "prompt" /\ obs'.failed))
      /\ (pc # "prompt" /\ pc' = "prompt")
           => (obs'.completed \/ obs'.failed)
      /\ (pc # "prompt" /\ (obs'.completed \/ obs'.failed))
           => pc' = "prompt" ]_vars
    /\ ((pc # "prompt") ~> (pc = "prompt"))

\* a turn of three requests has ended: two responses carried tool calls, whose
\* batches were run, and the third carried none
C35_Witness ==
  /\ pc = "prompt"
  /\ obs.completed
  /\ ~obs.failed
  /\ obs.batches = 2
  /\ obs.apiCalls = MaxApiCalls

\* C36: when the timeout of http_request passes before a response has come,
\* the request is aborted and the handler returns a "Timeout" text as the
\* result of the tool and does not throw, so the round goes on; and whichever
\* way the handler is left, by the response, an error or the abort, its timer
\* is cancelled
C36_TimeoutReturnsAndTimerCleared ==
  /\ [](pc # "fetch" => env.http.timers = 0)
  /\ [][ (pc = "fetch" /\ pc' # "fetch")
           => /\ env'.http.timers = 0
              /\ env'.last.outcome = "returned"
              /\ pc' \in {"tools", "callApi"}
              /\ ~obs'.failed
              /\ Last(messages').role = "tool"
              /\ Last(messages').tool_call_id = env.http.id
              /\ env.http.aborted
                   => Last(messages').content = <<"HTTP Error", "Timeout">> ]_vars

\* the timer of an http_request has fired during its fetch, the handler has
\* returned the Timeout text, and the next request to the model is due
C36_Witness ==
  /\ env.http.aborted
  /\ env.http.timers = 0
  /\ pc = "callApi"
  /\ env.last.name = "http_request"
  /\ env.last.result = <<"HTTP Error", "Timeout">>
  /\ Last(messages) = ToolMessage(env.http.id, <<"HTTP Error", "Timeout">>)

\* C37: a confirm of the build with the timer is resolved once, by the input or
\* by the timer, whichever comes first: when it is resolved neither its
\* listener nor its timer is left, so that at any moment the listeners and the
\* running timers are those of the one confirm that is pending, and the
\* decision is that of the one event that resolved it
C37_ResolvedOnceNothingLeft ==
  /\ env.confirm.listeners = env.confirm.pending
  /\ env.confirm.timers = env.confirm.pending
  /\ pc # "confirm" => env.confirm = NoConfirm
  /\ (~cfg.auto_yes /\ env.last.gate \in {"approved", "denied"})
       => /\ env.last.by \in {"input", "timer"}
          /\ (env.last.gate = "approved")
               <=> (env.last.by = "timer" \/ env.last.input \in YesInputs)

\* the second confirm of a batch is pending, with one listener and one timer,
\* after the first was resolved
C37_Witness ==
  /\ pc = "confirm"
  /\ ~env.chain.active
  /\ i = 2
  /\ msg.tool_calls[1].name = "run_shell"
  /\ Last(messages).role = "tool"
  /\ env.confirm = [pending |-> 1, listeners |-> 1, timers |-> 1]

\* the numbers of StepInputs, and what Math.max(1, N) is for each
StepNumbers ==
  { <<"0", Whole(1)>>, <<"-3", Whole(1)>>, <<"2", Whole(2)>>, <<"1.5", Num(1, TRUE)>> }

\* C38: the step budget a run of autopilot works with is 1 at the least:
\* /autopilot steps N stores the larger of 1 and N for every number N, zero and
\* the negative ones too; an N that is no number, or none, is rejected and the
\* budget stays; and a budget configured as 0 gives way to 5
C38_BudgetAtLeastOne ==
  /\ [](auto.running => auto.maxSteps.int >= 1)
  /\ [](auto.running /\ IsZero(cfg.autopilot_steps) => auto.maxSteps = Whole(5))
  /\ [][ /\ \A t \in StepNumbers :
              (pc = "prompt" /\ AutopilotOf("steps", t[1]))
                => (cfg'.autopilot_steps = t[2] /\ out' = OutOk)
         /\ \A val \in {"abc", ""} :
              (pc = "prompt" /\ AutopilotOf("steps", val))
                => (cfg' = cfg /\ out' = <<"err">>) ]_vars

\* the chat-i names in use
UsedNumbers == { n \in 1..Len(ChatNames) : HasChat(historyState.chats, ChatNames[n]) }

\* the chat-i name of the smallest i >= 1 that is not in use
SmallestFreeName ==
  ChatNames[CHOOSE n \in (1..Len(ChatNames)) \ UsedNumbers :
              \A m \in (1..Len(ChatNames)) \ UsedNumbers : n <= m]

\* C39: a /chat new that succeeds, with a name or without, adds one empty
\* session under a name not in use before, makes it the current session, leaves
\* the conversation as the system message alone and every session there was as
\* it was; without a name it takes chat-i for the smallest i >= 1 not in use,
\* and so always succeeds
C39_NewAddsOneEmptySession ==
  [][ (CommandStep /\ Doing.name = "new") =>
        LET old == historyState.chats
            new == historyState'.chats IN
        /\ out' = OutOk =>
              /\ Len(new) = Len(old) + 1
              /\ \A k \in 1..Len(old) : new[k] = old[k]
              /\ ~HasChat(old, currentChat')
              /\ Last(new) = [name |-> currentChat', msgs |-> <<>>]
              /\ historyState'.current = currentChat'
              /\ history' = <<>>
              /\ messages' = <<SystemMessage(cfg)>>
              /\ disk' = saveHistoryState(historyState')
              /\ Doing.arg # "" => currentChat' = Doing.arg
        /\ Doing.arg = "" =>
              /\ out' = OutOk
              /\ currentChat' = SmallestFreeName ]_vars

\* /chat new without a name has made chat-1 while chat-2 was there already,
\* after the session that held chat-1 before was deleted
C39_Witness ==
  /\ env.store.cmd = Cmd("new", "", FileMissing)
  /\ out = OutOk
  /\ pc = "prompt"
  /\ currentChat = "chat-1"
  /\ Len(historyState.chats) >= 2
  /\ historyState.chats[1].name = "chat-2"
  /\ Last(historyState.chats) = [name |-> "chat-1", msgs |-> <<>>]
  /\ messages = <<SystemMessage(cfg)>>

====
